---------------------------- MODULE Spec2Model ----------------------------
(***************************************************************************)
(* A model of the recursive crawler: the URL canonicalizer, the            *)
(* deduplicating frontier, the worker loop, the per-job orchestrator       *)
(* (SiteCrawler) and the job manager, with the part of the store that      *)
(* records the job status and the page records.                            *)
(*                                                                         *)
(* The program runs on one asyncio event loop, so every action below is    *)
(* the code between two points at which a coroutine really suspends.       *)
(***************************************************************************)
EXTENDS Integers, Sequences, FiniteSets, TLC

(***************************************************************************)
(* URLs.  A URL string is modelled by its parts as urlparse splits it:     *)
(* scheme, host and port of the authority, the path as the sequence of     *)
(* segments that follow each "/", the query as a sequence of <<key,        *)
(* value>> pairs and the fragment.  "/a/" is <<"a", "">>, "/" is <<"">>    *)
(* and the empty path is <<>>.  A query key is a sequence of tokens, so    *)
(* that a glob such as utm_* can be matched against it.  A segment may     *)
(* hold a ";": "a;" and "a;p" are segments of the model.                   *)
(***************************************************************************)
MkUrl(scheme, host, port, path, query, frag) ==
    [scheme |-> scheme, host |-> host, port |-> port, path |-> path,
     query |-> query, frag |-> frag]

\* Lower that keeps the case
Lower_KeepCase(s) == s

\* str.lower() on the scheme and host strings that occur in the model
Lower(s) ==
    CASE s = "HTTP" -> "http"
      [] s = "HTTPS" -> "https"
      [] s = "Example.COM" -> "example.com"
      [] s = "Blog.Example.com" -> "blog.example.com"
      [] OTHER -> s

\* component.count('.') > 0 for the path segments that occur in the model
HasDot(seg) == seg \in {"c.html", ".", ".."}

\* the order of str comparison on the tokens and values that occur
StrRank(s) ==
    CASE s = "" -> 0
      [] s = "1" -> 1
      [] s = "2" -> 2
      [] s = "a" -> 3
      [] s = "b" -> 4
      [] s = "fbclid" -> 5
      [] s = "source" -> 6
      [] s = "utm_" -> 7
      [] s = "x" -> 8
      [] OTHER -> 9

RECURSIVE LexLess(_, _)
\* a < b on sequences of tokens, as Python compares the strings they spell
LexLess(a, b) ==
    IF a = <<>> THEN b # <<>>
    ELSE IF b = <<>> THEN FALSE
    ELSE IF Head(a) = Head(b) THEN LexLess(Tail(a), Tail(b))
    ELSE StrRank(Head(a)) < StrRank(Head(b))

RECURSIVE match_pattern(_, _)
\* re.match('^' + pattern.replace('*', '.*') + '$', text) on token sequences
match_pattern(text, pattern) ==
    IF pattern = <<>> THEN text = <<>>
    ELSE IF Head(pattern) = "*"
         THEN \/ match_pattern(text, Tail(pattern))
              \/ text # <<>> /\ match_pattern(Tail(text), pattern)
    ELSE /\ text # <<>>
         /\ Head(text) = Head(pattern)
         /\ match_pattern(Tail(text), Tail(pattern))

RECURSIVE ResolvePath(_, _)
\* the loop of normalize_path over the components: "" and "." are dropped,
\* ".." pops the last resolved component
ResolvePath(components, resolved) ==
    IF components = <<>> THEN resolved
    ELSE LET c == Head(components) IN
         IF c = "" \/ c = "." THEN ResolvePath(Tail(components), resolved)
         ELSE IF c = ".."
              THEN ResolvePath(Tail(components),
                               IF resolved # <<>>
                               THEN SubSeq(resolved, 1, Len(resolved) - 1)
                               ELSE resolved)
         ELSE ResolvePath(Tail(components), Append(resolved, c))

normalize_path(path) ==
    IF path = <<>> THEN <<"">>
    ELSE LET resolved == ResolvePath(path, <<>>)
             endsWithSlash == path[Len(path)] = ""
         IN  IF resolved = <<>> THEN <<"">>
             ELSE IF endsWithSlash /\ ~HasDot(resolved[Len(resolved)])
                  THEN Append(resolved, "")
                  ELSE resolved

PairLess(p, q) ==
    \/ LexLess(p[1], q[1])
    \/ p[1] = q[1] /\ StrRank(p[2]) < StrRank(q[2])

RECURSIVE SortPairs(_)
\* sorted(keys) and, within one key, sorted(values), as one sequence of pairs
SortPairs(S) ==
    IF S = {} THEN <<>>
    ELSE LET m == CHOOSE x \in S : \A y \in S \ {x} : PairLess(x, y)
         IN  <<m>> \o SortPairs(S \ {m})

\* parse_qs groups the values by key, the ignored keys are dropped, the keys
\* and each key's values are sorted and urlencode writes the pairs out.
\* (Two equal pairs of one key are kept twice by the code; the model's
\* queries hold no duplicate pair.)
normalize_query(query, ignore_patterns) ==
    IF query = <<>> THEN <<>>
    ELSE LET kept == {query[i] : i \in
                        {j \in 1..Len(query) :
                            ~\E k \in 1..Len(ignore_patterns) :
                                match_pattern(query[j][1], ignore_patterns[k])}}
         IN  SortPairs(kept)

\* urlparse splits the parameters off the last path segment at its first
\* ";": the segment that is left and the parameters, for the segments that
\* occur in the model
SplitParams(seg) ==
    CASE seg = "a;" -> <<"a", "">>
      [] seg = "a;p" -> <<"a", "p">>
      [] OTHER -> <<seg, "">>

\* urlunparse writes "path;params" when the parameters are not empty
JoinParams(seg, params) ==
    IF params = "" THEN seg
    ELSE CASE seg = "a" /\ params = "p" -> "a;p"

\* parsed.path and parsed.params of urlparse(url)
urlparse(url) ==
    IF url.path = <<>> THEN [path |-> <<>>, params |-> ""]
    ELSE LET n == Len(url.path)
             split == SplitParams(url.path[n])
         IN  [path |-> [url.path EXCEPT ![n] = split[1]], params |-> split[2]]

normalize_url(url, ignore_query_patterns) ==
    LET parsed == urlparse(url)
        scheme == IF url.scheme # "" THEN Lower(url.scheme) ELSE "http"
        host == Lower(url.host)
        port == IF url.port # ""
                   /\ \/ scheme = "http" /\ url.port = "80"
                      \/ scheme = "https" /\ url.port = "443"
                THEN "" ELSE url.port
        path == normalize_path(parsed.path)
    IN  MkUrl(scheme, host, port,
              [path EXCEPT ![Len(path)] = JoinParams(@, parsed.params)],
              normalize_query(url.query, ignore_query_patterns), "")

(***************************************************************************)
(* The frontier (CrawlFrontier).  Its state is one record: the FIFO queue  *)
(* of <<url, depth>>, the sets _visited and _in_frontier and the counters. *)
(* The operators below take a frontier and return the frontier after the   *)
(* call.                                                                   *)
(***************************************************************************)
\* CrawlParams.ignore_query_params: ["utm_*", "fbclid"]
DefaultIgnore == << <<"utm_", "*">>, <<"fbclid">> >>

EmptyStats ==
    [queued |-> 0, visited |-> 0, ok |-> 0, failed |-> 0, skipped |-> 0,
     enqueued |-> 0]

NewFrontier(ignore_query_patterns) ==
    [queue |-> <<>>, visited |-> {}, in_frontier |-> {}, stats |-> EmptyStats,
     ignore |-> ignore_query_patterns]

\* AlreadySeen with the visited set forgotten
AlreadySeen_OnlyFrontier(F, normalized_url) == normalized_url \in F.in_frontier

\* the test of enqueue and add_bulk_urls: already visited or in the frontier
AlreadySeen(F, normalized_url) ==
    normalized_url \in F.visited \/ normalized_url \in F.in_frontier

\* enqueue returns True exactly when the URL was added
enqueue_returns(F, url) == ~AlreadySeen(F, normalize_url(url, F.ignore))

enqueue(F, url, depth) ==
    LET normalized_url == normalize_url(url, F.ignore) IN
    IF AlreadySeen(F, normalized_url) THEN F
    ELSE [F EXCEPT !.in_frontier = @ \cup {normalized_url},
                   !.queue = Append(@, <<normalized_url, depth>>),
                   !.stats.enqueued = @ + 1,
                   !.stats.queued = @ + 1]

RECURSIVE add_bulk_urls(_, _)
\* the reference queue is unbounded, so put_nowait never raises QueueFull
add_bulk_urls(F, urls_with_depth) ==
    IF urls_with_depth = <<>> THEN F
    ELSE add_bulk_urls(enqueue(F, Head(urls_with_depth)[1], Head(urls_with_depth)[2]),
                       Tail(urls_with_depth))

\* dequeue once _queue.get() has returned an item: the item moves from the
\* frontier to the visited set
dequeue(F) ==
    LET url == Head(F.queue)[1] IN
    [F EXCEPT !.queue = Tail(@),
              !.in_frontier = @ \ {url},
              !.visited = @ \cup {url},
              !.stats.queued = @ - 1,
              !.stats.visited = @ + 1]

mark_success(F, url) ==
    IF normalize_url(url, F.ignore) \in F.visited
    THEN [F EXCEPT !.stats.ok = @ + 1] ELSE F

\* mark_failure that counts the failure twice
mark_failure_Twice(F, url) ==
    IF normalize_url(url, F.ignore) \in F.visited
    THEN [F EXCEPT !.stats.failed = @ + 2] ELSE F

mark_failure(F, url) ==
    IF normalize_url(url, F.ignore) \in F.visited
    THEN [F EXCEPT !.stats.failed = @ + 1] ELSE F

\* mark_skipped that counts nothing
mark_skipped_Uncounted(F, url) == F

mark_skipped(F, url) == [F EXCEPT !.stats.skipped = @ + 1]

is_empty(F) == F.queue = <<>>

(***************************************************************************)
(* The site that is crawled, and the URL strings handed to the frontier.   *)
(***************************************************************************)
Site(path) == MkUrl("http", "example.com", "", path, <<>>, "")

Seed == Site(<<"">>)
PageA == Site(<<"a">>)
PageB == Site(<<"b">>)

\* spellings of the same pages that differ in case, default port, fragment,
\* dot segments and ignored or unordered query parameters
SeedVariant == MkUrl("HTTP", "Example.COM", "80", <<>>, <<>>, "top")
PageAVariant ==
    MkUrl("http", "example.com", "", <<"b", "..", "a">>,
          << <<<<"utm_", "source">>, "x">> >>, "")
PageBQuery ==
    MkUrl("http", "example.com", "", <<"b">>,
          << <<<<"b">>, "2">>, <<<<"a">>, "1">> >>, "")
PageBQueryVariant ==
    MkUrl("http", "Example.COM", "", <<".", "b">>,
          << <<<<"a">>, "1">>, <<<<"fbclid">>, "x">>, <<<<"b">>, "2">> >>, "frag")

RawURLs == {Seed, SeedVariant, PageA, PageAVariant, PageBQuery, PageBQueryVariant}

\* the largest depth handed to enqueue by a caller of the frontier
MaxEnqDepth == 1

\* the lists handed to add_bulk_urls
BulkLists ==
    { <<>>,
      << <<PageA, 1>>, <<PageAVariant, 1>> >>,
      << <<SeedVariant, 0>>, <<PageBQueryVariant, 1>>, <<PageBQuery, 1>> >> }

\* the callers that may be blocked in dequeue at the same time
Consumers == {"w1", "w2"}

VARIABLES
    frontier,         \* the CrawlFrontier of the job
    dequeued,         \* the <<url, depth>> pairs dequeue has returned, in order
    getters,          \* the callers blocked in dequeue on an empty queue
    last_call,        \* the last enqueue call: <<url, result>>, or <<>>
    params,           \* the CrawlParams of the job
    job_status,       \* JobManager._jobs[job_id].status
    manifest_state,   \* status.state in the job's manifest.json
    crawler_registered, \* job_id in JobManager._crawlers
    lock,             \* who holds JobManager._lock: "free" or "stop_job"
    run_pc,           \* where the task of _run_crawler stands
    is_running,       \* SiteCrawler.is_running
    is_paused,        \* SiteCrawler.is_paused
    should_stop,      \* SiteCrawler.should_stop
    workers,          \* the tasks in SiteCrawler.worker_tasks
    tasks,            \* every worker task created: its position and worker fields
    generation,       \* how many times _start_workers has run
    deadline_passed,  \* time.time() - start_time > max_duration_sec
    monitor_exit,     \* why _monitor_crawl left its loop, "none" while it has not
    gathered,         \* the tasks start()'s _cleanup is waiting for in gather
    pages,            \* the page records in the job's pages directory
    crawl_result,     \* total_pages of the dict crawl_site returns, -1 before
    pages_crawled,    \* JobManager._jobs[job_id].pages_crawled
    job_log           \* the lines append_log wrote, as <<kind, url>>

frontierVars == <<frontier, dequeued, getters, last_call>>

jobVars ==
    <<params, job_status, manifest_state, crawler_registered, lock, run_pc,
      is_running, is_paused, should_stop, workers, tasks, generation,
      deadline_passed, monitor_exit, gathered, pages, crawl_result,
      pages_crawled, job_log>>

reportVars == <<crawl_result, pages_crawled>>

\* the state of the components that are also verified on their own
VARIABLES
    clock,            \* time.time(), in ticks
    bucket,           \* the TokenBucket of one domain
    admits,           \* the times at which acquire returned True, in order
    norm_url,         \* a URL string U
    norm_variant,     \* another spelling of U
    norm_ignore,      \* the ignore_query_patterns handed to normalize_url
    norm_out,         \* what normalize_url returned, <<>> before the calls
    scope_case,       \* the url, params and seed handed to in_scope
    scope_out,        \* <<what in_scope returned>>, <<>> before the call
    asset,            \* the download_asset call under way
    blobs,            \* the files save_asset wrote to the blobs directory
    export_lines,     \* the lines of exports/results.jsonl
    manifest_file,    \* the bytes of manifest.json on disk
    manifest_writer,  \* the _save_manifest call under way
    manifest_loaded,  \* what the last _load_manifest returned
    delete_job_pc,    \* where the delete_job call stands
    fix_jobs,         \* the jobs fix_stuck_jobs finds: on disk, in _jobs, in _crawlers
    fix_before,       \* fix_jobs when fix_stuck_jobs was called, <<>> before
    waiters,          \* the wait_for_tokens calls made, in order
    capturing,        \* the _capture_assets call of each worker task
    blob_dir,         \* the files in the job's blobs directory
    manifest_stats,   \* status.stats in the job's manifest.json
    saved_job,        \* <<the job save_job was last handed by the monitor>>
    tick_stats,       \* <<frontier.get_stats() at the monitor's last pass>>
    loaded_job,       \* <<the job get_job last returned>>
    sm_stack,         \* the parse_sitemap calls under way, the outermost first
    sm_result         \* <<what the outermost parse_sitemap returned>>

bucketVars == <<clock, bucket, admits>>

normVars == <<norm_url, norm_variant, norm_ignore, norm_out>>

scopeVars == <<scope_case, scope_out>>

assetVars == <<asset, blobs>>

manifestVars == <<manifest_file, manifest_writer, manifest_loaded>>

deleteVars == <<delete_job_pc>>

fixVars == <<fix_jobs, fix_before>>

waitVars == <<waiters>>

captureVars == <<capturing, blob_dir>>

statsVars == <<manifest_stats, saved_job, tick_stats, loaded_job>>

sitemapVars == <<sm_stack, sm_result>>

componentVars ==
    <<bucketVars, normVars, scopeVars, assetVars, export_lines, manifestVars,
      deleteVars,
      fixVars,
      waitVars,
      captureVars,
      statsVars,
      sitemapVars>>

crawlIdleFrame == <<frontierVars, jobVars>>

\* what the actions of one component leave alone
bucketFrame ==
    <<crawlIdleFrame, normVars, scopeVars, assetVars, export_lines,
      manifestVars,
      deleteVars,
      fixVars,
      waitVars,
      captureVars,
      statsVars,
      sitemapVars>>

normFrame ==
    <<crawlIdleFrame, bucketVars, scopeVars, assetVars, export_lines,
      manifestVars,
      deleteVars,
      fixVars,
      waitVars,
      captureVars,
      statsVars,
      sitemapVars>>

scopeFrame ==
    <<crawlIdleFrame, bucketVars, normVars, assetVars, export_lines,
      manifestVars,
      deleteVars,
      fixVars,
      waitVars,
      captureVars,
      statsVars,
      sitemapVars>>

assetFrame ==
    <<crawlIdleFrame, bucketVars, normVars, scopeVars, export_lines,
      manifestVars,
      deleteVars,
      fixVars,
      waitVars,
      captureVars,
      statsVars,
      sitemapVars>>

exportFrame ==
    <<crawlIdleFrame, bucketVars, normVars, scopeVars, assetVars,
      manifestVars,
      deleteVars,
      fixVars,
      waitVars,
      captureVars,
      statsVars,
      sitemapVars>>

manifestFrame ==
    <<crawlIdleFrame, bucketVars, normVars, scopeVars, assetVars,
      export_lines,
      deleteVars,
      fixVars,
      waitVars,
      captureVars,
      statsVars,
      sitemapVars>>

sitemapFrame ==
    <<crawlIdleFrame, bucketVars, normVars, scopeVars, assetVars,
      export_lines,
      deleteVars,
      fixVars,
      waitVars,
      captureVars,
      statsVars,
      manifestVars>>

statsFrame ==
    <<crawlIdleFrame, bucketVars, normVars, scopeVars, assetVars,
      export_lines,
      deleteVars,
      fixVars,
      waitVars,
      captureVars,
      manifestVars,
      sitemapVars>>

captureFrame ==
    <<crawlIdleFrame, bucketVars, normVars, scopeVars, assetVars,
      export_lines,
      deleteVars,
      fixVars,
      waitVars,
      manifestVars,
      statsVars,
      sitemapVars>>

waitFrame ==
    <<crawlIdleFrame, normVars, scopeVars, assetVars,
      export_lines,
      deleteVars,
      fixVars,
      manifestVars,
      captureVars,
      statsVars,
      sitemapVars>>

fixFrame ==
    <<crawlIdleFrame, bucketVars, normVars, scopeVars, assetVars,
      export_lines,
      deleteVars,
      manifestVars,
      waitVars,
      captureVars,
      statsVars,
      sitemapVars>>

deleteFrame ==
    <<crawlIdleFrame, bucketVars, normVars, scopeVars, assetVars,
      export_lines,
      manifestVars,
      fixVars,
      waitVars,
      captureVars,
      statsVars,
      sitemapVars>>

\* no bucket exists yet: DomainRateLimiter._buckets is empty
NoBucket == [rate |-> [num |-> 0, den |-> 1], capacity |-> 0, tokens |-> 0,
             last_update |-> 0]

BucketIdle ==
    /\ clock = 0
    /\ bucket = NoBucket
    /\ admits = <<>>

NormIdle ==
    /\ norm_url = MkUrl("", "", "", <<>>, <<>>, "")
    /\ norm_variant = norm_url
    /\ norm_ignore = <<>>
    /\ norm_out = <<>>

ScopeIdle ==
    /\ scope_case = <<>>
    /\ scope_out = <<>>

\* no download is under way and none has been made
NoDownload ==
    [pc |-> "idle", max_size_bytes |-> 0, content_length |-> -1, body |-> 0,
     content |-> 0, returned |-> "none", calls |-> 0]

AssetIdle ==
    /\ asset = NoDownload
    /\ blobs = <<>>

ExportIdle == export_lines = <<>>

ManifestIdle ==
    /\ manifest_file = <<>>
    /\ manifest_writer = <<>>
    /\ manifest_loaded = "none"

DeleteIdle ==
    /\ delete_job_pc = "none"

FixIdle ==
    /\ fix_jobs = <<>>
    /\ fix_before = <<>>

WaitIdle ==
    /\ waiters = <<>>

CaptureIdle ==
    /\ capturing = <<>>
    /\ blob_dir = {}

StatsIdle ==
    /\ manifest_stats = [queued |-> 0, visited |-> 0, ok |-> 0, failed |-> 0, skipped |-> 0, enqueued |-> 0]
    /\ saved_job = <<>>
    /\ tick_stats = <<>>
    /\ loaded_job = <<>>

SitemapIdle ==
    /\ sm_stack = <<>>
    /\ sm_result = <<>>

ComponentsIdle ==
    /\ BucketIdle
    /\ NormIdle
    /\ ScopeIdle
    /\ AssetIdle
    /\ ExportIdle
    /\ ManifestIdle
    /\ DeleteIdle
    /\ FixIdle
    /\ WaitIdle
    /\ CaptureIdle
    /\ StatsIdle
    /\ SitemapIdle

vars == <<frontierVars, jobVars, componentVars>>

(***************************************************************************)
(* The job: its parameters, the pages of the site and the scope predicate. *)
(***************************************************************************)
PageC == Site(<<"c">>)
PageD == Site(<<"d">>)
PageE == Site(<<"e">>)
PagePrivate == Site(<<"private", "x">>)
External == MkUrl("http", "example.org", "", <<"a">>, <<>>, "")
Secure == MkUrl("https", "example.com", "", <<"a">>, <<>>, "")

\* the links the link extractor returns for a rendered page, in page order
Links(url) ==
    CASE url = Seed -> <<PageA, PageB>>
      [] url = PageA -> <<PageC, SeedVariant>>
      [] url = PageB -> <<External, PageD, PageE, Secure>>
      [] url = PageC -> <<PageE>>
      [] url = PageD -> <<PagePrivate>>
      [] url = PageE -> <<PagePrivate>>
      [] OTHER -> <<>>

\* the links of a page whose anchor carries rel="nofollow": the link
\* extractors return URLs only, without this attribute
NofollowAnchors(url) == IF url = PageB THEN {PageE} ELSE {}

\* the site's robots.txt: "User-agent: *" / "Disallow: /private"
RobotsDisallows(url) == url.path # <<>> /\ url.path[1] = "private"

\* the URLs whose wait for a rate-limit token may run into the 30 s timeout
SlowUrls == {PageD}

\* the URLs whose HEAD request may fail or report a type that is not allowed
HeadFailUrls == {PageD}

\* the URLs the renderer fails on
ExtractFailUrls == {PageD}

\* CrawlParams.max_depth and CrawlParams.max_pages as models.py sets them
DefaultMaxDepth == 3
DefaultMaxPages == 1000

\* a page cap that a crawl of the site reaches
SmallMaxPages == 2

DefaultParams ==
    [url |-> Seed, scope |-> "domain", path_prefix |-> <<>>,
     include |-> <<>>, exclude |-> <<>>,
     max_depth |-> DefaultMaxDepth, max_pages |-> DefaultMaxPages,
     concurrency |-> 2, respect_robots |-> TRUE, follow_nofollow |-> FALSE,
     same_protocol_only |-> TRUE, ignore_query_params |-> DefaultIgnore]

\* the parameter sets a job is created with
ParamChoices ==
    { DefaultParams,
      [DefaultParams EXCEPT !.max_pages = SmallMaxPages],
      [DefaultParams EXCEPT !.concurrency = 1, !.max_depth = 1] }

\* hosts in which tldextract finds no public suffix
NoSuffixHosts == {"localhost", "intranet"}

\* tldextract's registered_domain of the hosts that occur: domain.suffix,
\* and "" for a host without a public suffix
RegisteredDomain(host) ==
    CASE host = "blog.example.com" -> "example.com"
      [] host \in NoSuffixHosts -> ""
      [] OTHER -> host

\* tldextract's fqdn: the host name, and "" for a host without a public
\* suffix
Fqdn(host) == IF host \in NoSuffixHosts THEN "" ELSE host

get_url_components(url) ==
    [scheme |-> Lower(url.scheme), host |-> Fqdn(Lower(url.host)),
     domain |-> RegisteredDomain(Lower(url.host)), path |-> url.path]

\* path.startswith(prefix), both as sequences of segments
StartsWith(path, prefix) ==
    /\ Len(prefix) <= Len(path)
    /\ \A i \in 1..Len(prefix) : path[i] = prefix[i]

\* re.search(pattern, url) for patterns that are one literal word of the URL
ReSearch(pattern, url) ==
    pattern \in {url.scheme, url.host} \cup {url.path[i] : i \in 1..Len(url.path)}

in_scope(url, P, seed_components) ==
    LET c == get_url_components(url) IN
    /\ P.same_protocol_only => c.scheme = seed_components.scheme
    /\ CASE P.scope = "domain" -> c.domain = seed_components.domain
         [] P.scope = "host" -> c.host = seed_components.host
         [] P.scope = "path_prefix" ->
                /\ c.host = seed_components.host
                /\ P.path_prefix # <<>> => StartsWith(c.path, P.path_prefix)
         [] OTHER -> TRUE
    /\ P.include # <<>> =>
          \E i \in 1..Len(P.include) : ReSearch(P.include[i], url)
    /\ \A i \in 1..Len(P.exclude) : ~ReSearch(P.exclude[i], url)

should_follow_link(url, P, seed_components, link_has_nofollow) ==
    /\ ~(link_has_nofollow /\ ~P.follow_nofollow)
    /\ in_scope(url, P, seed_components)

\* RobotsChecker.can_fetch: the check is switched off and allows every URL
can_fetch(url) == TRUE

NoUrl == <<>>

\* a worker task: where it stands, the URL it holds, and the worker's flags
NewTask ==
    [pc |-> "new", url |-> NoUrl, depth |-> 0, is_running |-> FALSE,
     should_stop |-> FALSE, cancel |-> FALSE]

\* the state after create_job(P): the job is pending in memory and its
\* manifest says "queued"; no crawler exists yet
JobInit(P) ==
    /\ params = P
    /\ job_status = "pending"
    /\ manifest_state = "queued"
    /\ crawler_registered = FALSE
    /\ lock = "free"
    /\ run_pc = "none"
    /\ is_running = FALSE
    /\ is_paused = FALSE
    /\ should_stop = FALSE
    /\ workers = {}
    /\ tasks = <<>>
    /\ generation = 0
    /\ deadline_passed = FALSE
    /\ monitor_exit = "none"
    /\ gathered = {}
    /\ pages = {}
    /\ crawl_result = -1
    /\ pages_crawled = 0
    /\ job_log = {}

FrontierInit ==
    /\ frontier = NewFrontier(DefaultIgnore)
    /\ dequeued = <<>>
    /\ getters = {}
    /\ last_call = <<>>

\* enqueue(url, depth): the unbounded queue never makes put() wait
FEnqueue(url, depth) ==
    /\ last_call' = <<url, enqueue_returns(frontier, url)>>
    /\ frontier' = enqueue(frontier, url, depth)
    /\ UNCHANGED <<dequeued, getters, jobVars, componentVars>>

FAddBulk(urls_with_depth) ==
    /\ frontier' = add_bulk_urls(frontier, urls_with_depth)
    /\ last_call' = <<>>
    /\ UNCHANGED <<dequeued, getters, jobVars, componentVars>>

\* dequeue() by caller c: an item is returned at once when the queue holds
\* one, otherwise the caller blocks in _queue.get()
FDequeueCall(c) ==
    /\ c \notin getters
    /\ IF is_empty(frontier)
       THEN /\ getters' = getters \cup {c}
            /\ UNCHANGED <<frontier, dequeued>>
       ELSE /\ dequeued' = Append(dequeued, Head(frontier.queue))
            /\ frontier' = dequeue(frontier)
            /\ UNCHANGED getters
    /\ UNCHANGED <<last_call, jobVars, componentVars>>

\* a blocked caller is resumed when the queue holds an item
FDequeueResume(c) ==
    /\ c \in getters
    /\ ~is_empty(frontier)
    /\ dequeued' = Append(dequeued, Head(frontier.queue))
    /\ frontier' = dequeue(frontier)
    /\ getters' = getters \ {c}
    /\ UNCHANGED <<last_call, jobVars, componentVars>>

\* a blocked caller is cancelled: dequeue returns None and takes nothing
FDequeueCancel(c) ==
    /\ c \in getters
    /\ getters' = getters \ {c}
    /\ UNCHANGED <<frontier, dequeued, last_call, jobVars, componentVars>>

FrontierNext ==
    \/ \E url \in RawURLs, depth \in 0..MaxEnqDepth : FEnqueue(url, depth)
    \/ \E l \in BulkLists : FAddBulk(l)
    \/ \E c \in Consumers : FDequeueCall(c)
    \/ \E c \in Consumers : FDequeueResume(c)
    \/ \E c \in Consumers : FDequeueCancel(c)

\* a frontier on its own: the job around it is created and never started
FrontierStart == FrontierInit /\ JobInit(DefaultParams) /\ ComponentsIdle

FrontierSpec == FrontierStart /\ [][FrontierNext]_vars

(***************************************************************************)
(* C1: every canonical URL is returned by dequeue at most once, whatever   *)
(* the sequence of enqueue, add_bulk_urls and dequeue calls, also when the *)
(* URL is enqueued again while queued or after it was dequeued and when    *)
(* several callers dequeue.                                                *)
(***************************************************************************)
C1_AtMostOneDequeue ==
    \A i, j \in 1..Len(dequeued) :
        i # j => normalize_url(dequeued[i][1], DefaultIgnore)
                    # normalize_url(dequeued[j][1], DefaultIgnore)

\* two URLs were dequeued, and another spelling of a dequeued URL has just
\* been handed to enqueue and refused
C1_Witness ==
    /\ Len(dequeued) >= 2
    /\ last_call # <<>>
    /\ last_call[1] # normalize_url(last_call[1], DefaultIgnore)
    /\ normalize_url(last_call[1], DefaultIgnore) \in frontier.visited
    /\ last_call[2] = FALSE

(***************************************************************************)
(* The worker (CrawlWorker) and the orchestrator (SiteCrawler).            *)
(***************************************************************************)
seed_components == get_url_components(params.url)

RECURSIVE EnqueueLinks(_, _, _, _)
\* the loop over new_links of _process_url: each link is normalized and, when
\* should_follow_link accepts it, enqueued one level below its parent
EnqueueLinks(F, links, depth, P) ==
    IF links = <<>> THEN F
    ELSE CHOOSE after \in
             UNION {{EnqueueLinks(F1, Tail(links), depth, P) :
                        F1 \in {IF should_follow_link(normalized_link, P,
                                                      get_url_components(P.url),
                                                      FALSE)
                                THEN enqueue(F, normalized_link, depth + 1)
                                ELSE F}} :
                    normalized_link \in
                        {normalize_url(Head(links), P.ignore_query_params)}} :
                 TRUE

\* NewLinks without the test of the depth
NewLinks_AtAnyDepth(url, depth, P) == Links(url)

\* the links _process_url extracts: none once the page is at max_depth
NewLinks(url, depth, P) == IF depth < P.max_depth THEN Links(url) ELSE <<>>

\* the dict extract_page_content returns: the keys it holds and the value
\* of "url" among them.  It is {} when the extraction failed
EmptyArticle(url) == [keys |-> {}, url |-> url]

\* ArticleResult.model_dump() of the page at url
ArticleOf(url) ==
    [keys |-> {"byline", "content", "dir", "excerpt", "id", "url", "domain",
               "lang", "length", "date", "query", "meta", "resultUri",
               "fullContent", "screenshotUri", "siteName", "textContent",
               "title", "publishedTime"},
     url |-> url]

\* save_page writes pages/<sha256(url)>.json, replacing a file of that name;
\* written counts the writes that file has had (each write stamps the record
\* with a new timestamp)
save_page(pg, url, depth, article_result, status_code, ok, reason) ==
    LET old == {r \in pg : r.url = url}
        n == IF old = {} THEN 0 ELSE (CHOOSE r \in old : TRUE).written
    IN  (pg \ old) \cup
            {[url |-> url, depth |-> depth, status_code |-> status_code,
              ok |-> ok, written |-> n + 1,
              article_result |-> article_result, reason |-> reason]}

RECURSIVE NextUrl(_, _, _, _)
\* the head of the worker's loop with no suspension in it: dequeue returns at
\* once while the queue holds an item, and a URL that robots.txt rejects is
\* marked skipped and the loop goes round again; on an empty queue the
\* worker blocks in dequeue
NextUrl(F, dq, lg, P) ==
    IF is_empty(F)
    THEN [frontier |-> F, dequeued |-> dq, log |-> lg,
          pc |-> "waiting", url |-> NoUrl, depth |-> 0]
    ELSE LET item == Head(F.queue)
             F1 == dequeue(F)
             dq1 == Append(dq, item)
         IN  IF P.respect_robots /\ ~can_fetch(item[1])
             THEN NextUrl(mark_skipped(F1, item[1]), dq1,
                          lg \cup {<<"skipped", item[1]>>}, P)
             ELSE [frontier |-> F1, dequeued |-> dq1, log |-> lg,
                   pc |-> "ratelimit", url |-> item[1], depth |-> item[2]]

\* worker task t goes round its loop with frontier F and log lg: it leaves
\* the loop when it was told to stop, and takes its next URL otherwise
Loop(t, F, lg) ==
    IF tasks[t].should_stop
    THEN /\ frontier' = F
         /\ job_log' = lg
         /\ tasks' = [tasks EXCEPT ![t].pc = "done", ![t].url = NoUrl,
                                   ![t].is_running = FALSE]
         /\ UNCHANGED dequeued
    ELSE \E n \in {NextUrl(F, dequeued, lg, params)} :
         /\ frontier' = n.frontier
         /\ dequeued' = n.dequeued
         /\ job_log' = n.log
         /\ tasks' = [tasks EXCEPT ![t].pc = n.pc, ![t].url = n.url,
                                   ![t].depth = n.depth, ![t].is_running = TRUE]

Runnable(t, pc) ==
    /\ t \in DOMAIN tasks
    /\ tasks[t].pc = pc
    /\ ~tasks[t].cancel

workerFrame ==
    <<getters, last_call, params, componentVars, reportVars, job_status,
      manifest_state, crawler_registered, lock, run_pc, is_running, is_paused,
      should_stop, workers, generation, deadline_passed, monitor_exit,
      gathered>>

\* run() starts: is_running is set and the loop is entered
WorkerStart(t) ==
    /\ Runnable(t, "new")
    /\ Loop(t, frontier, job_log)
    /\ UNCHANGED <<workerFrame, pages>>

\* a worker blocked in dequeue is resumed with an item
WorkerWake(t) ==
    /\ Runnable(t, "waiting")
    /\ ~is_empty(frontier)
    /\ Loop(t, frontier, job_log)
    /\ UNCHANGED <<workerFrame, pages>>

\* wait_for_permission returns True
RateLimitGranted(t) ==
    /\ Runnable(t, "ratelimit")
    /\ tasks' = [tasks EXCEPT ![t].pc = "head"]
    /\ UNCHANGED <<frontier, dequeued, job_log, workerFrame, pages>>

\* wait_for_permission times out: the URL is a failure
RateLimitTimeout(t) ==
    /\ Runnable(t, "ratelimit")
    /\ tasks[t].url \in SlowUrls
    /\ Loop(t, mark_failure(frontier, tasks[t].url),
            job_log \cup {<<"failed", tasks[t].url>>})
    /\ UNCHANGED <<workerFrame, pages>>

\* the tasks inside "async with semaphore" of extract_article
InRenderer(T) == {t \in DOMAIN T : T[t].pc = "render"}

\* a semaphore that never refuses a permit
semaphore_locked_Never(T, P) == FALSE

\* asyncio.Semaphore(params.concurrency).locked(): no permit is left
semaphore_locked(T, P) == Cardinality(InRenderer(T)) >= P.concurrency

\* fetch_and_check_content_type returns an allowed type and the worker goes
\* on to extract_page_content: it enters the semaphore at once when a permit
\* is free and waits for one otherwise
HeadAllowed(t) ==
    /\ Runnable(t, "head")
    /\ tasks' = [tasks EXCEPT ![t].pc = IF semaphore_locked(tasks, params)
                                        THEN "acquire" ELSE "render"]
    /\ UNCHANGED <<frontier, dequeued, job_log, workerFrame, pages>>

\* a worker waiting in semaphore.acquire() gets a permit that was released
SemaphoreAcquired(t) ==
    /\ Runnable(t, "acquire")
    /\ ~semaphore_locked(tasks, params)
    /\ tasks' = [tasks EXCEPT ![t].pc = "render"]
    /\ UNCHANGED <<frontier, dequeued, job_log, workerFrame, pages>>

\* fetch_and_check_content_type fails or the type is not allowed: skipped
HeadRejected(t) ==
    /\ Runnable(t, "head")
    /\ tasks[t].url \in HeadFailUrls
    /\ Loop(t, mark_skipped(frontier, tasks[t].url),
            job_log \cup {<<"skipped", tasks[t].url>>})
    /\ UNCHANGED <<workerFrame, pages>>

\* extract_page_content fails: a failure and a page record with ok = false
RenderFailed(t) ==
    /\ Runnable(t, "render")
    /\ tasks[t].url \in ExtractFailUrls
    /\ pages' = save_page(pages, tasks[t].url, tasks[t].depth,
                           EmptyArticle(tasks[t].url), "None", FALSE,
                           "Content extraction failed")
    /\ Loop(t, mark_failure(frontier, tasks[t].url), job_log)
    /\ UNCHANGED workerFrame

\* the page is rendered: its links are enqueued, the page record is written
\* and the URL is marked a success
RenderDone(t) ==
    /\ Runnable(t, "render")
    /\ tasks[t].url \notin ExtractFailUrls
    /\ LET url == tasks[t].url
           depth == tasks[t].depth
       IN  \E F1 \in {EnqueueLinks(frontier, NewLinks(url, depth, params),
                                    depth, params)} :
               /\ pages' = save_page(pages, url, depth, ArticleOf(url), "200",
                                      TRUE, "None")
               /\ Loop(t, mark_success(F1, url), job_log \cup {<<"ok", url>>})
    /\ UNCHANGED workerFrame

\* a run() that handled CancelledError as it handles Exception: the
\* abandoned URL counted as a failure and logged
WorkerCancelled_CountsFailure(t) ==
    /\ t \in DOMAIN tasks
    /\ tasks[t].cancel
    /\ tasks[t].pc # "done"
    /\ tasks' = [tasks EXCEPT ![t].pc = "done", ![t].is_running = FALSE]
    /\ frontier' = IF tasks[t].url = NoUrl THEN frontier
                   ELSE mark_failure(frontier, tasks[t].url)
    /\ UNCHANGED <<dequeued, job_log, workerFrame, pages>>

\* a cancelled task is resumed with CancelledError: a task that never ran
\* ends at once, a blocked dequeue returns None and run() breaks, and a URL in
\* progress is abandoned; finally: is_running = False
WorkerCancelled(t) ==
    /\ t \in DOMAIN tasks
    /\ tasks[t].cancel
    /\ tasks[t].pc # "done"
    /\ tasks' = [tasks EXCEPT ![t].pc = "done", ![t].is_running = FALSE]
    /\ UNCHANGED <<frontier, dequeued, job_log, workerFrame, pages>>

WorkerStep(t) ==
    \/ WorkerStart(t)
    \/ WorkerWake(t)
    \/ RateLimitGranted(t)
    \/ RateLimitTimeout(t)
    \/ HeadAllowed(t)
    \/ HeadRejected(t)
    \/ RenderFailed(t)
    \/ RenderDone(t)
    \/ WorkerCancelled(t)

\* how many times resume() may respawn the workers
MaxResumes == 1

AllDone(T, S) == \A t \in S : T[t].pc = "done"

\* _start_workers: the lists are cleared and concurrency fresh tasks created
NewWorkers == {<<generation + 1, i>> : i \in 1..params.concurrency}

StartWorkers(T) ==
    /\ workers' = NewWorkers
    /\ generation' = generation + 1
    /\ tasks' = [t \in DOMAIN T \cup NewWorkers |->
                    IF t \in NewWorkers THEN NewTask ELSE T[t]]

\* worker.stop() and task.cancel() for every worker of the crawler; cancel()
\* does nothing to a task that has finished
CancelWorkers(T, W) ==
    [t \in DOMAIN T |->
        IF t \in W
        THEN [T[t] EXCEPT !.should_stop = TRUE, !.cancel = (T[t].pc # "done")]
        ELSE T[t]]

\* one pass of the loop of _monitor_crawl, up to its sleep or its exit
MonitorDecision(running, stop, passed, F, W, T) ==
    IF ~(running /\ ~stop) THEN "flag"
    ELSE IF passed THEN "time"
    ELSE IF F.stats.visited >= params.max_pages THEN "pages"
    ELSE IF is_empty(F) /\ \A t \in W : ~T[t].is_running THEN "empty"
    ELSE "sleep"

\* _update_status, on the state the manifest holds: the job is read back from
\* its manifest and saved with the new status; a job whose manifest is gone
\* reads back as None and nothing is written
update_status(state, new) ==
    IF state = "absent" THEN state ELSE new

\* _update_status_if_not_terminal, on the state the manifest holds
StatusIfNotTerminal(state) ==
    IF state \notin {"error", "canceled"}
    THEN update_status(state, "completed")
    ELSE state

\* the rest of start() once _cleanup's gather has returned: the lists are
\* cleared and the status is finalized; crawl_site then takes the frontier's
\* stats for its result and goes on to close the browser
FinishStart(state) ==
    /\ workers' = {}
    /\ gathered' = {}
    /\ is_running' = FALSE
    /\ manifest_state' = StatusIfNotTerminal(state)
    /\ crawl_result' = frontier.stats.visited
    /\ run_pc' = "closing"

\* the monitor leaves its loop and start() reaches _cleanup, which waits for
\* the worker tasks when there are any
LeaveMonitor(decision, W, state) ==
    /\ monitor_exit' = decision
    /\ IF W # {}
       THEN /\ gathered' = W
            /\ run_pc' = "cleanup"
            /\ manifest_state' = state
            /\ UNCHANGED <<workers, is_running, crawl_result>>
       ELSE FinishStart(state)

\* start_job: the job must be pending; the crawler is created and
\* _run_crawler is scheduled
StartJob ==
    /\ lock = "free"
    /\ job_status = "pending"
    /\ crawler_registered' = TRUE
    /\ job_status' = "running"
    /\ manifest_state' = "running"
    /\ run_pc' = "launching"
    /\ UNCHANGED <<frontierVars, params, componentVars, reportVars, lock,
                   is_running, is_paused, should_stop, workers, tasks,
                   generation, deadline_passed, monitor_exit, gathered, pages,
                   job_log>>

\* crawl_site cannot launch the browser: _run_crawler records the failure
BrowserLaunchFails ==
    /\ run_pc = "launching"
    /\ job_status' = "failed"
    /\ manifest_state' = "failed"
    /\ crawler_registered' = FALSE
    /\ run_pc' = "done"
    /\ UNCHANGED <<frontierVars, params, componentVars, reportVars, lock,
                   is_running, is_paused, should_stop, workers, tasks,
                   generation, deadline_passed, monitor_exit, gathered, pages,
                   job_log>>

\* start(): the flags, the running status, the seed and the workers, and the
\* first pass of the monitor, which runs before any worker does
StartCrawl ==
    /\ run_pc = "launching"
    /\ ~is_running
    /\ should_stop' = FALSE
    /\ frontier' = enqueue(frontier, params.url, 0)
    /\ job_log' = job_log \cup {<<"start", params.url>>}
    /\ StartWorkers(tasks)
    /\ LET d == MonitorDecision(TRUE, FALSE, FALSE, frontier', NewWorkers, tasks') IN
       IF d = "sleep"
       THEN /\ run_pc' = "monitor"
            /\ is_running' = TRUE
            /\ manifest_state' = update_status(manifest_state, "running")
            /\ UNCHANGED <<monitor_exit, gathered>>
       ELSE /\ monitor_exit' = d
            /\ gathered' = NewWorkers
            /\ run_pc' = "cleanup"
            /\ is_running' = TRUE
            /\ manifest_state' = update_status(manifest_state, "running")
    /\ UNCHANGED <<dequeued, getters, last_call, params, componentVars,
                   reportVars, job_status, crawler_registered, lock, is_paused,
                   deadline_passed, pages>>

\* the monitor wakes from its sleep and makes one pass
MonitorTick ==
    /\ run_pc = "monitor"
    /\ LET d == MonitorDecision(is_running, should_stop, deadline_passed,
                                frontier, workers, tasks) IN
       IF d = "sleep"
       THEN UNCHANGED <<run_pc, monitor_exit, gathered, workers, is_running,
                        manifest_state, crawl_result>>
       ELSE LeaveMonitor(d, workers, manifest_state)
    /\ UNCHANGED <<frontierVars, params, componentVars, pages_crawled,
                   job_status, crawler_registered, lock, is_paused,
                   should_stop, tasks, generation, deadline_passed, pages,
                   job_log>>

\* the gather of start()'s _cleanup returns: every awaited task has ended
CleanupDone ==
    /\ run_pc = "cleanup"
    /\ AllDone(tasks, gathered)
    /\ FinishStart(manifest_state)
    /\ UNCHANGED <<frontierVars, params, componentVars, pages_crawled,
                   job_status, crawler_registered, lock, is_paused,
                   should_stop, tasks, generation, deadline_passed,
                   monitor_exit, pages, job_log>>

\* crawl_site has returned: _run_crawler records the job as completed, with
\* the result's total_pages as pages_crawled
RunCrawlerFinish ==
    /\ run_pc = "closing"
    /\ job_status' = "completed"
    /\ manifest_state' = "completed"
    /\ pages_crawled' = crawl_result
    /\ crawler_registered' = FALSE
    /\ run_pc' = "done"
    /\ UNCHANGED <<frontierVars, params, componentVars, crawl_result, lock,
                   is_running, is_paused, should_stop, workers, tasks,
                   generation, deadline_passed, monitor_exit, gathered, pages,
                   job_log>>

\* time passes and the job's max_duration_sec is exceeded
DeadlinePasses ==
    /\ run_pc = "monitor"
    /\ ~deadline_passed
    /\ deadline_passed' = TRUE
    /\ UNCHANGED <<frontierVars, params, componentVars, reportVars, job_status,
                   manifest_state, crawler_registered, lock, run_pc,
                   is_running, is_paused, should_stop, workers, tasks,
                   generation, monitor_exit, gathered, pages, job_log>>

\* SiteCrawler.pause
Pause ==
    /\ crawler_registered
    /\ is_running /\ ~is_paused
    /\ is_paused' = TRUE
    /\ tasks' = CancelWorkers(tasks, workers)
    /\ manifest_state' = "paused"
    /\ UNCHANGED <<frontierVars, params, componentVars, reportVars, job_status,
                   crawler_registered, lock, run_pc, is_running, should_stop,
                   workers, generation, deadline_passed, monitor_exit,
                   gathered, pages, job_log>>

\* SiteCrawler.resume
Resume ==
    /\ crawler_registered
    /\ is_running /\ is_paused
    /\ generation <= MaxResumes
    /\ is_paused' = FALSE
    /\ StartWorkers(tasks)
    /\ manifest_state' = "running"
    /\ UNCHANGED <<frontierVars, params, componentVars, reportVars, job_status,
                   crawler_registered, lock, run_pc, is_running, should_stop,
                   deadline_passed, monitor_exit, gathered, pages, job_log>>

\* the test stop_job makes before it stops anything
stop_job_accepts(status) == status = "running"

\* stop_job up to the gather of SiteCrawler._cleanup, or to its end when the
\* crawler has no worker task to wait for
StopJobBegin ==
    /\ lock = "free"
    /\ stop_job_accepts(job_status)
    /\ IF crawler_registered
       THEN /\ should_stop' = TRUE
            /\ tasks' = CancelWorkers(tasks, workers)
            /\ IF workers # {}
               THEN /\ lock' = "stop_job"
                    /\ is_running' = FALSE
                    /\ manifest_state' = "canceled"
                    /\ UNCHANGED <<job_status, crawler_registered, workers>>
               ELSE /\ is_running' = FALSE
                    /\ crawler_registered' = FALSE
                    /\ job_status' = "stopped"
                    /\ manifest_state' = "stopped"
                    /\ UNCHANGED <<lock, workers>>
       ELSE /\ job_status' = "stopped"
            /\ manifest_state' = "stopped"
            /\ UNCHANGED <<should_stop, tasks, lock, is_running,
                           crawler_registered, workers>>
    /\ UNCHANGED <<frontierVars, params, componentVars, reportVars, run_pc,
                   is_paused, generation, deadline_passed, monitor_exit,
                   gathered, pages, job_log>>

\* the gather of stop()'s _cleanup returns; stop_job records the job as
\* stopped and releases the lock
StopJobFinish ==
    /\ lock = "stop_job"
    /\ AllDone(tasks, {t \in DOMAIN tasks : t[1] = generation})
    /\ workers' = {}
    /\ is_running' = FALSE
    /\ crawler_registered' = FALSE
    /\ job_status' = "stopped"
    /\ manifest_state' = "stopped"
    /\ lock' = "free"
    /\ UNCHANGED <<frontierVars, params, componentVars, reportVars, run_pc,
                   is_paused, should_stop, tasks, generation, deadline_passed,
                   monitor_exit, gathered, pages, job_log>>

\* JobManager.get_job: the job in memory takes the status of the manifest
GetJob ==
    /\ job_status' = manifest_state
    /\ UNCHANGED <<frontierVars, params, componentVars, reportVars,
                   manifest_state, crawler_registered, lock, run_pc,
                   is_running, is_paused, should_stop, workers, tasks,
                   generation, deadline_passed, monitor_exit, gathered, pages,
                   job_log>>


(***************************************************************************)
(* The rate limiter: the TokenBucket of one domain.  Time is counted in    *)
(* ticks, TicksPerSec to the second, and a rate is the fraction num/den of *)
(* requests per second.  Tokens are counted in units of 1/(den *           *)
(* TicksPerSec) of a token, so that elapsed * rate is a whole number.      *)
(***************************************************************************)
TicksPerSec == 10

MaxClock == 16

\* the values of rate_limit_per_domain_per_sec tried: 0.5, 1.0, 1.5, 2.0, 3.0
RateChoices ==
    {[num |-> 1, den |-> 2], [num |-> 1, den |-> 1], [num |-> 3, den |-> 2],
     [num |-> 2, den |-> 1], [num |-> 3, den |-> 1]}

\* int(rate)
IntOf(rate) == rate.num \div rate.den

\* one token in the units tokens are counted in
OneToken(rate) == rate.den * TicksPerSec

Min(a, b) == IF a <= b THEN a ELSE b

\* TokenBucket(rate): capacity = max(1, int(rate)) and the bucket starts full
TokenBucket(rate, now) ==
    LET capacity == IF IntOf(rate) >= 1 THEN IntOf(rate) ELSE 1
    IN  [rate |-> rate, capacity |-> capacity,
         tokens |-> capacity * OneToken(rate), last_update |-> now]

\* an acquire that refills without the min(capacity, ...)
acquire_Uncapped(B, now) ==
    LET elapsed == now - B.last_update
        refilled == B.tokens + elapsed * B.rate.num
    IN  IF refilled >= OneToken(B.rate)
        THEN [bucket |-> [B EXCEPT !.tokens = refilled - OneToken(B.rate),
                                   !.last_update = now],
              granted |-> TRUE]
        ELSE [bucket |-> [B EXCEPT !.tokens = refilled, !.last_update = now],
              granted |-> FALSE]

\* TokenBucket.acquire(1) at time now: refill, then take a token if one is there
acquire(B, now) ==
    LET elapsed == now - B.last_update
        refilled == Min(B.capacity * OneToken(B.rate),
                        B.tokens + elapsed * B.rate.num)
    IN  IF refilled >= OneToken(B.rate)
        THEN [bucket |-> [B EXCEPT !.tokens = refilled - OneToken(B.rate),
                                   !.last_update = now],
              granted |-> TRUE]
        ELSE [bucket |-> [B EXCEPT !.tokens = refilled, !.last_update = now],
              granted |-> FALSE]

CrawlIdle == FrontierInit /\ JobInit(DefaultParams)

\* the first request for the domain creates its bucket with the default rate
BucketCreate(rate) ==
    /\ bucket = NoBucket
    /\ bucket' = TokenBucket(rate, clock)
    /\ UNCHANGED <<clock, admits, bucketFrame>>

\* one pass of the loop of wait_for_tokens: a call of acquire
BucketAcquire ==
    /\ bucket # NoBucket
    /\ \E r \in {acquire(bucket, clock)} :
        /\ bucket' = r.bucket
        /\ admits' = IF r.granted THEN Append(admits, clock) ELSE admits
    /\ UNCHANGED <<clock, bucketFrame>>

\* time passes: asyncio.sleep(0.1) of a waiter, or the work between requests
BucketTick ==
    /\ clock < MaxClock
    /\ clock' = clock + 1
    /\ UNCHANGED <<bucket, admits, bucketFrame>>

BucketInit ==
    /\ CrawlIdle
    /\ SitemapIdle
    /\ StatsIdle
    /\ CaptureIdle
    /\ WaitIdle
    /\ FixIdle
    /\ DeleteIdle
    /\ BucketIdle
    /\ NormIdle
    /\ ScopeIdle
    /\ AssetIdle
    /\ ExportIdle
    /\ ManifestIdle

BucketNext ==
    \/ \E rate \in RateChoices : BucketCreate(rate)
    \/ BucketAcquire
    \/ BucketTick

BucketSpec == BucketInit /\ [][BucketNext]_vars

(***************************************************************************)
(* WaitSpec: the requests of one domain waiting on its bucket.  A request  *)
(* is a call of wait_for_permission: it creates the bucket when the domain *)
(* has none, tries acquire at once and then again after every sleep of     *)
(* 0.1 s, until a token is granted or its timeout has passed.  The event   *)
(* loop runs every waiter whose sleep is over before more time passes.     *)
(***************************************************************************)
MaxWaiters == 5

\* requests arrive at the ticks that are multiples of ArrivalEvery
ArrivalEvery == 3

\* the timeout _process_url hands to wait_for_permission, in seconds
PermissionTimeoutSec == 30

\* asyncio.sleep(0.1), in ticks
SleepTicks == IF TicksPerSec \div 10 >= 1 THEN TicksPerSec \div 10 ELSE 1

\* one pass of the loop of wait_for_tokens for the call W at time now: what
\* becomes of the bucket and of the call
wait_for_tokens(B, W, now) ==
    LET r == acquire(B, now) IN
    [bucket |-> r.bucket,
     granted |-> r.granted,
     waiter |->
        IF r.granted
        THEN [W EXCEPT !.state = "granted", !.at = now]
        ELSE IF now - W.start_time >= PermissionTimeoutSec * TicksPerSec
        THEN [W EXCEPT !.state = "timeout", !.at = now]
        ELSE [W EXCEPT !.at = now + SleepTicks]]

\* a call of wait_for_tokens that starts at time now
NewWaiter(now) == [state |-> "waiting", start_time |-> now, at |-> now]

\* the waiters whose sleep is over
Due(Ws, now) == {i \in DOMAIN Ws : Ws[i].state = "waiting" /\ Ws[i].at <= now}

\* wait_for_permission is called: the bucket is made if the domain has none,
\* and the first pass of wait_for_tokens runs
WaitForPermission(rate) ==
    /\ Len(waiters) < MaxWaiters
    /\ clock % ArrivalEvery = 0
    /\ IF bucket = NoBucket THEN TRUE ELSE rate = bucket.rate
    /\ \E B \in {IF bucket = NoBucket THEN TokenBucket(rate, clock)
                 ELSE bucket} :
       \E r \in {wait_for_tokens(B, NewWaiter(clock), clock)} :
          /\ bucket' = r.bucket
          /\ waiters' = Append(waiters, r.waiter)
          /\ admits' = IF r.granted THEN Append(admits, clock) ELSE admits
    /\ UNCHANGED <<clock, waitFrame>>

\* a waiter wakes from its sleep and makes its next pass
WaitWake(i) ==
    /\ i \in Due(waiters, clock)
    /\ \E r \in {wait_for_tokens(bucket, waiters[i], clock)} :
          /\ bucket' = r.bucket
          /\ waiters' = [waiters EXCEPT ![i] = r.waiter]
          /\ admits' = IF r.granted THEN Append(admits, clock) ELSE admits
    /\ UNCHANGED <<clock, waitFrame>>

\* time passes once every waiter that is due has run
WaitTick ==
    /\ clock < MaxClock
    /\ Due(waiters, clock) = {}
    /\ clock' = clock + 1
    /\ UNCHANGED <<bucket, admits, waiters, waitFrame>>

WaitInit == BucketInit

WaitNext ==
    \/ \E rate \in RateChoices : WaitForPermission(rate)
    \/ \E i \in 1..MaxWaiters : WaitWake(i)
    \/ WaitTick

WaitSpec == WaitInit /\ [][WaitNext]_vars

(***************************************************************************)
(* The canonicalizer on its own: normalize_url is applied to a URL U, to   *)
(* another spelling V of U, and to its own result.  V is made from U by    *)
(* the changes a canonical form has to absorb.                             *)
(***************************************************************************)
NormPaths ==
    { <<>>, <<"">>, <<"a">>, <<"a", "">>, <<"a", ".", "b", "..", "c">>,
      <<"A", "B">>, <<"c.html", "">>, <<"a;p">>, <<"a;", ".">> }

NormQueries ==
    { <<>>,
      << <<<<"a">>, "1">> >>,
      << <<<<"b">>, "2">>, <<<<"a">>, "1">> >>,
      << <<<<"a">>, "2">>, <<<<"a">>, "1">> >> }

NormURLs ==
    {MkUrl(scheme, "example.com", port, path, query, "") :
        scheme \in {"http", "https"}, port \in {"", "8080"},
        path \in NormPaths, query \in NormQueries}

IgnoreLists == {<<>>, DefaultIgnore}

\* query parameters that the default ignore list drops
IgnoredPairs == { <<<<"utm_", "source">>, "x">>, <<<<"fbclid">>, "x">> }

\* str.upper() on the schemes of the model
Upper(s) ==
    CASE s = "http" -> "HTTP"
      [] s = "https" -> "HTTPS"
      [] OTHER -> s

InsertAt(seq, i, x) == SubSeq(seq, 1, i - 1) \o <<x>> \o SubSeq(seq, i, Len(seq))

\* the scheme is written in upper case
RespellScheme ==
    /\ norm_out = <<>>
    /\ norm_variant.scheme \in {"http", "https"}
    /\ norm_variant' = [norm_variant EXCEPT !.scheme = Upper(@)]
    /\ UNCHANGED <<norm_url, norm_ignore, norm_out, normFrame>>

\* the host is written in mixed case
RespellHost ==
    /\ norm_out = <<>>
    /\ norm_variant.host = "example.com"
    /\ norm_variant' = [norm_variant EXCEPT !.host = "Example.COM"]
    /\ UNCHANGED <<norm_url, norm_ignore, norm_out, normFrame>>

\* the default port of the scheme is written out
RespellPort ==
    /\ norm_out = <<>>
    /\ norm_variant.port = ""
    /\ norm_variant' =
            [norm_variant EXCEPT
                !.port = IF Lower(norm_variant.scheme) = "http" THEN "80"
                         ELSE "443"]
    /\ UNCHANGED <<norm_url, norm_ignore, norm_out, normFrame>>

\* a fragment is added
RespellFragment ==
    /\ norm_out = <<>>
    /\ norm_variant.frag = ""
    /\ norm_variant' = [norm_variant EXCEPT !.frag = "frag"]
    /\ UNCHANGED <<norm_url, norm_ignore, norm_out, normFrame>>

\* two neighbouring query parameters change places
RespellQueryOrder ==
    /\ norm_out = <<>>
    /\ \E i \in 1..(Len(norm_variant.query) - 1) :
        LET q == norm_variant.query IN
        norm_variant' =
            [norm_variant EXCEPT
                !.query = [q EXCEPT ![i] = q[i + 1], ![i + 1] = q[i]]]
    /\ UNCHANGED <<norm_url, norm_ignore, norm_out, normFrame>>

\* a query parameter that the ignore list matches is added
RespellIgnoredParam ==
    /\ norm_out = <<>>
    /\ \E pair \in IgnoredPairs, i \in 1..(Len(norm_variant.query) + 1) :
        /\ \E k \in 1..Len(norm_ignore) : match_pattern(pair[1], norm_ignore[k])
        /\ \A j \in 1..Len(norm_variant.query) : norm_variant.query[j] # pair
        /\ norm_variant' =
                [norm_variant EXCEPT !.query = InsertAt(@, i, pair)]
    /\ UNCHANGED <<norm_url, norm_ignore, norm_out, normFrame>>

\* normalize_url(U), normalize_url(V) and normalize_url(normalize_url(V))
Normalize ==
    /\ norm_out = <<>>
    /\ \E once \in {normalize_url(norm_variant, norm_ignore)} :
        norm_out' = [base |-> normalize_url(norm_url, norm_ignore),
                     once |-> once,
                     twice |-> normalize_url(once, norm_ignore)]
    /\ UNCHANGED <<norm_url, norm_variant, norm_ignore, normFrame>>

NormInit ==
    /\ CrawlIdle
    /\ SitemapIdle
    /\ StatsIdle
    /\ CaptureIdle
    /\ WaitIdle
    /\ FixIdle
    /\ DeleteIdle
    /\ BucketIdle
    /\ ScopeIdle
    /\ AssetIdle
    /\ ExportIdle
    /\ ManifestIdle
    /\ norm_url \in NormURLs
    /\ norm_variant = norm_url
    /\ norm_ignore \in IgnoreLists
    /\ norm_out = <<>>

NormNext ==
    \/ RespellScheme
    \/ RespellHost
    \/ RespellPort
    \/ RespellFragment
    \/ RespellQueryOrder
    \/ RespellIgnoredParam
    \/ Normalize

NormSpec == NormInit /\ [][NormNext]_vars

(***************************************************************************)
(* The scope predicate on its own: in_scope is applied to a URL under the  *)
(* scope rules, with a seed.                                               *)
(***************************************************************************)
ScopeURLs ==
    { Site(<<"a">>), Site(<<"docs", "a">>),
      MkUrl("https", "example.com", "", <<"a">>, <<>>, ""),
      MkUrl("http", "blog.example.com", "", <<"docs">>, <<>>, ""),
      External,
      MkUrl("http", "intranet", "", <<"a">>, <<>>, ""),
      MkUrl("http", "localhost", "", <<"docs">>, <<>>, "") }

ScopeSeeds == {Seed, MkUrl("http", "localhost", "", <<"">>, <<>>, "")}

ScopeParams ==
    {[DefaultParams EXCEPT !.scope = scope, !.same_protocol_only = same,
                           !.path_prefix = prefix, !.include = include,
                           !.exclude = exclude] :
        scope \in {"domain", "host", "path_prefix", "custom"},
        same \in BOOLEAN, prefix \in {<<>>, <<"docs">>},
        include \in {<<>>, <<"docs">>}, exclude \in {<<>>, <<"a">>}}

\* in_scope(url, params, seed_components) is called
ScopeCheck ==
    /\ scope_out = <<>>
    /\ scope_out' = <<in_scope(scope_case.url, scope_case.params,
                               get_url_components(scope_case.seed))>>
    /\ UNCHANGED <<scope_case, scopeFrame>>

ScopeInit ==
    /\ CrawlIdle
    /\ SitemapIdle
    /\ StatsIdle
    /\ CaptureIdle
    /\ WaitIdle
    /\ FixIdle
    /\ DeleteIdle
    /\ BucketIdle
    /\ NormIdle
    /\ AssetIdle
    /\ ExportIdle
    /\ ManifestIdle
    /\ scope_case \in [url : ScopeURLs, seed : ScopeSeeds, params : ScopeParams]
    /\ scope_out = <<>>

ScopeNext == ScopeCheck

ScopeSpec == ScopeInit /\ [][ScopeNext]_vars

(***************************************************************************)
(* The capture of one asset after another: download_asset streams the      *)
(* body under the size limit and _capture_assets hands what it returns to  *)
(* save_asset.  Sizes are counted in units of which BytesPerMb make a      *)
(* megabyte, and a chunk of the stream holds at most ChunkSize of them.    *)
(***************************************************************************)
BytesPerMb == 2

ChunkSize == 2

\* the largest max_asset_size_mb tried
MaxSizeMb == 2

\* the largest body a server sends, and the largest Content-Length it states
MaxBody == 5

\* the assets captured in one run
MaxAssets == 2

\* the size checks of download_asset never reject
exceeds_Never(size, max_size_bytes) == FALSE

\* int(content_length) > max_size_bytes, and len(content) > max_size_bytes
exceeds(size, max_size_bytes) == size > max_size_bytes

\* download_asset returns None, or nothing comes of it
DownloadEnds(a, returned) ==
    [a EXCEPT !.pc = "idle", !.returned = returned]

\* download_asset up to the stream of the body: the response is there, with a
\* Content-Length header (-1: without one) that need not be the size of the
\* body
AssetRequest(max_size_mb, content_length, body) ==
    /\ asset.pc = "idle"
    /\ asset.calls < MaxAssets
    /\ LET max_size_bytes == max_size_mb * BytesPerMb
           a == [pc |-> "stream", max_size_bytes |-> max_size_bytes,
                 content_length |-> content_length, body |-> body,
                 content |-> 0, returned |-> "none",
                 calls |-> asset.calls + 1]
       IN  asset' = IF content_length # -1
                       /\ exceeds(content_length, max_size_bytes)
                    THEN DownloadEnds(a, "None")
                    ELSE a
    /\ UNCHANGED <<blobs, assetFrame>>

\* the next chunk of the body is added to content
AssetChunk ==
    /\ asset.pc = "stream"
    /\ asset.body > 0
    /\ \E k \in 1..Min(ChunkSize, asset.body) :
        LET a == [asset EXCEPT !.content = @ + k, !.body = @ - k]
        IN  asset' = IF exceeds(a.content, a.max_size_bytes)
                     THEN DownloadEnds(a, "None")
                     ELSE a
    /\ UNCHANGED <<blobs, assetFrame>>

\* the stream ends: download_asset returns content, and _capture_assets
\* saves it when it is not empty
AssetEnd ==
    /\ asset.pc = "stream"
    /\ asset.body = 0
    /\ asset' = DownloadEnds(asset, "content")
    /\ blobs' = IF asset.content # 0
                THEN Append(blobs, [size |-> asset.content,
                                    max_size_bytes |-> asset.max_size_bytes])
                ELSE blobs
    /\ UNCHANGED assetFrame

\* the request or the stream raises: download_asset returns None
AssetFails ==
    /\ asset.pc = "stream"
    /\ asset' = DownloadEnds(asset, "None")
    /\ UNCHANGED <<blobs, assetFrame>>

AssetInit ==
    /\ CrawlIdle
    /\ SitemapIdle
    /\ StatsIdle
    /\ CaptureIdle
    /\ WaitIdle
    /\ FixIdle
    /\ DeleteIdle
    /\ BucketIdle
    /\ NormIdle
    /\ ScopeIdle
    /\ AssetIdle
    /\ ExportIdle
    /\ ManifestIdle

AssetNext ==
    \/ \E max_size_mb \in 1..MaxSizeMb, content_length \in -1..MaxBody,
          body \in 0..MaxBody :
            AssetRequest(max_size_mb, content_length, body)
    \/ AssetChunk
    \/ AssetEnd
    \/ AssetFails

AssetSpec == AssetInit /\ [][AssetNext]_vars

(***************************************************************************)
(* The job's manifest.json.  A manifest is named by its revision; the file *)
(* on disk holds the revision it was opened for and how many of that       *)
(* manifest's chunks have reached the disk.                                *)
(***************************************************************************)
\* rewrites of one manifest that are followed
MaxRevisions == 6

\* buffer flushes that carry one json.dump to the disk
ManifestChunks == 3

\* the file holds the whole of one manifest
Complete(file) == file.len = ManifestChunks

\* save_job has written the first manifest
FirstManifest == [rev |-> 0, len |-> ManifestChunks]

\* _save_manifest, open(manifest_file, 'w'): the file is truncated in place
SaveOpen ==
    /\ manifest_writer = <<>>
    /\ manifest_file.rev < MaxRevisions
    /\ manifest_writer' = <<manifest_file.rev + 1>>
    /\ manifest_file' = [rev |-> manifest_file.rev + 1, len |-> 0]
    /\ UNCHANGED <<manifest_loaded, manifestFrame>>

\* _save_manifest, json.dump: the next chunk reaches the file
SaveWrite ==
    /\ manifest_writer # <<>>
    /\ manifest_file.len < ManifestChunks
    /\ manifest_file' = [manifest_file EXCEPT !.len = @ + 1]
    /\ UNCHANGED <<manifest_writer, manifest_loaded, manifestFrame>>

\* _save_manifest, the end of the with block
SaveClose ==
    /\ manifest_writer # <<>>
    /\ manifest_file.len = ManifestChunks
    /\ manifest_writer' = <<>>
    /\ UNCHANGED <<manifest_file, manifest_loaded, manifestFrame>>

\* the process stops during _save_manifest: the file stays as it is
ProcessStops ==
    /\ manifest_writer # <<>>
    /\ manifest_writer' = <<>>
    /\ UNCHANGED <<manifest_file, manifest_loaded, manifestFrame>>

\* _load_manifest, by a reader while no _save_manifest call is running:
\* json.load raises on a file that is not a whole JSON document, and None
\* is returned
LoadManifest ==
    /\ manifest_writer = <<>>
    /\ manifest_loaded' = IF Complete(manifest_file) THEN "manifest"
                          ELSE "None"
    /\ UNCHANGED <<manifest_file, manifest_writer, manifestFrame>>

ManifestInit ==
    /\ CrawlIdle
    /\ SitemapIdle
    /\ StatsIdle
    /\ CaptureIdle
    /\ WaitIdle
    /\ FixIdle
    /\ DeleteIdle
    /\ BucketIdle
    /\ NormIdle
    /\ ScopeIdle
    /\ AssetIdle
    /\ ExportIdle
    /\ manifest_file = FirstManifest
    /\ manifest_writer = <<>>
    /\ manifest_loaded = "none"

ManifestNext ==
    \/ SaveOpen
    \/ SaveWrite
    \/ SaveClose
    \/ ProcessStops
    \/ LoadManifest

ManifestSpec == ManifestInit /\ [][ManifestNext]_vars

(***************************************************************************)
(* fix_stuck_jobs.  The jobs are numbered; of each the table holds the     *)
(* state in its manifest, whether it is in the manager's _jobs and         *)
(* _crawlers, how many page records it has, and its last_error.           *)
(***************************************************************************)
\* jobs in the storage directory
MaxJobs == 2

\* page records one job may have
MaxPageRecords == 1

JobIds == 1..MaxJobs

\* a job as a process finds it: a job in _jobs carries the status of its
\* manifest, and only a job in _jobs has a crawler in _crawlers
StoredJobs ==
    [state : {"queued", "running", "completed"},
     in_jobs : BOOLEAN, in_crawlers : {FALSE}, pages : 0..MaxPageRecords,
     error : {"none"}]
    \cup
    [state : {"running"},
     in_jobs : {TRUE}, in_crawlers : {TRUE}, pages : 0..MaxPageRecords,
     error : {"none"}]

\* the branch both loops of fix_stuck_jobs take for a stuck job, followed by
\* save_job
Reconciled(job) ==
    IF job.pages > 0
    THEN [job EXCEPT !.state = "completed"]
    ELSE [job EXCEPT !.state = "failed", !.error = "interrupted"]

\* the first loop, over _jobs: running in memory and not in _crawlers
FixInMemory(J) ==
    [j \in DOMAIN J |->
        IF J[j].in_jobs /\ J[j].state = "running" /\ ~J[j].in_crawlers
        THEN Reconciled(J[j]) ELSE J[j]]

\* the second loop, over the storage: CrawlStorage has no method
\* list_job_summaries, the call raises AttributeError and the except clause
\* around the loop logs it
FixInStorage(J) == J

\* fix_stuck_jobs, under the manager's lock
FixStuckJobs ==
    /\ fix_before = <<>>
    /\ fix_before' = fix_jobs
    /\ fix_jobs' = FixInStorage(FixInMemory(fix_jobs))
    /\ UNCHANGED fixFrame

FixInit ==
    /\ CrawlIdle
    /\ SitemapIdle
    /\ StatsIdle
    /\ CaptureIdle
    /\ WaitIdle
    /\ BucketIdle
    /\ NormIdle
    /\ ScopeIdle
    /\ AssetIdle
    /\ ExportIdle
    /\ ManifestIdle
    /\ DeleteIdle
    /\ fix_jobs \in [JobIds -> StoredJobs]
    /\ fix_before = <<>>

FixNext == FixStuckJobs

FixSpec == FixInit /\ [][FixNext]_vars

TaskIds == {<<g, i>> : g \in 1..(MaxResumes + 1), i \in 1..2}

\* a job on a corner of the site, two levels deep: PageB and the pages it
\* links to
SmallParams == [DefaultParams EXCEPT !.url = PageB, !.max_depth = 1]

\* the calls a client of the job manager or of the crawler makes
ClientNext ==
    \/ StartJob
    \/ StopJobBegin
    \/ Pause
    \/ Resume
    \/ GetJob

\* the steps the program takes by itself once a job was started
ProgramNext ==
    \/ BrowserLaunchFails
    \/ StartCrawl
    \/ MonitorTick
    \/ CleanupDone
    \/ RunCrawlerFinish
    \/ DeadlinePasses
    \/ StopJobFinish
    \/ \E t \in TaskIds : WorkerStep(t)

Next == ClientNext \/ ProgramNext

(***************************************************************************)
(* Spec: one job on the small site under every client call.                *)
(***************************************************************************)
Init == FrontierInit /\ JobInit(SmallParams) /\ ComponentsIdle

Spec == Init /\ [][Next]_vars

(***************************************************************************)
(* PauseSpec: the job of Spec with one worker at a time, its crawler       *)
(* paused, resumed and stopped, and nobody reading the job back.  A        *)
(* worker blocked in dequeue is never resumed here: only a running worker  *)
(* enqueues, and there is no second one.                                   *)
(***************************************************************************)
PauseParams == [SmallParams EXCEPT !.concurrency = 1]

PauseInit == FrontierInit /\ JobInit(PauseParams) /\ ComponentsIdle

PauseWorkerStep(t) ==
    \/ WorkerStart(t)
    \/ RateLimitGranted(t)
    \/ RateLimitTimeout(t)
    \/ HeadAllowed(t)
    \/ SemaphoreAcquired(t)
    \/ HeadRejected(t)
    \/ RenderFailed(t)
    \/ RenderDone(t)
    \/ WorkerCancelled(t)

PauseNext ==
    \/ StartJob
    \/ StopJobBegin
    \/ Pause
    \/ Resume
    \/ BrowserLaunchFails
    \/ StartCrawl
    \/ MonitorTick
    \/ CleanupDone
    \/ RunCrawlerFinish
    \/ DeadlinePasses
    \/ StopJobFinish
    \/ \E t \in TaskIds : PauseWorkerStep(t)

PauseSpec == PauseInit /\ [][PauseNext]_vars

(***************************************************************************)
(* CrawlSpec: one job on the whole site, with each parameter set of        *)
(* ParamChoices, that a client starts and may stop.                        *)
(***************************************************************************)
CrawlInit ==
    FrontierInit /\ ComponentsIdle /\ \E P \in ParamChoices : JobInit(P)

CrawlNext ==
    \/ StartJob
    \/ StopJobBegin
    \/ ProgramNext

CrawlSpec == CrawlInit /\ [][CrawlNext]_vars

(***************************************************************************)
(* DeleteSpec: the job of CrawlSpec, which a client may also delete.  The  *)
(* job is followed until delete_job has returned.                          *)
(***************************************************************************)
\* what delete_job leaves alone besides the job
deleteCrawlFrame ==
    <<bucketVars, normVars, scopeVars, assetVars, export_lines, manifestVars,
      fixVars,
      waitVars,
      captureVars,
      statsVars,
      sitemapVars>>

\* delete_job takes the lock; for a running job it awaits stop_job, which
\* awaits the same lock; for another job it stops the crawler that is still
\* registered, or goes on to delete
DeleteJobBegin ==
    /\ delete_job_pc = "none"
    /\ lock = "free"
    /\ lock' = "delete_job"
    /\ IF job_status = "running"
       THEN /\ delete_job_pc' = "stop_job awaits lock"
            /\ UNCHANGED <<should_stop, tasks, is_running>>
       ELSE IF crawler_registered
       THEN /\ delete_job_pc' = "crawler.stop"
            /\ should_stop' = TRUE
            /\ tasks' = CancelWorkers(tasks, workers)
            /\ is_running' = FALSE
       ELSE /\ delete_job_pc' = "deleting"
            /\ UNCHANGED <<should_stop, tasks, is_running>>
    /\ UNCHANGED <<frontierVars, params, deleteCrawlFrame, reportVars,
                   job_status, manifest_state, crawler_registered, run_pc,
                   is_paused, workers, generation, deadline_passed,
                   monitor_exit, gathered, pages, job_log>>

\* the crawler has stopped, if there was one: the job's directory is removed,
\* the job leaves _jobs, the lock is released and delete_job returns True
DeleteJobFinish ==
    /\ \/ delete_job_pc = "deleting"
       \/ /\ delete_job_pc = "crawler.stop"
          /\ AllDone(tasks, {t \in DOMAIN tasks : t[1] = generation})
    /\ delete_job_pc' = "returned"
    /\ lock' = "free"
    /\ crawler_registered' = FALSE
    /\ pages' = {}
    /\ manifest_state' = "absent"
    /\ UNCHANGED <<frontierVars, params, deleteCrawlFrame, reportVars,
                   job_status, run_pc, is_running, is_paused, should_stop,
                   workers, tasks, generation, deadline_passed, monitor_exit,
                   gathered, job_log>>

DeleteNext ==
    \/ delete_job_pc # "returned" /\ CrawlNext
    \/ DeleteJobBegin
    \/ DeleteJobFinish

DeleteSpec == CrawlInit /\ [][DeleteNext]_vars

(***************************************************************************)
(* FaultSpec: the job of Spec, started and maybe stopped by its client, on *)
(* a storage whose writes may fail.                                        *)
(* save_page logs the error of a failed write and raises it again; it is   *)
(* the call of _process_url that raises into the worker's loop.            *)
(***************************************************************************)
\* an exception that run() does not catch for the URL: the worker ends
SavePageRaises_EndsWorker(t) ==
    /\ Runnable(t, "render")
    /\ tasks' = [tasks EXCEPT ![t].pc = "done", ![t].is_running = FALSE]
    /\ job_log' = job_log \cup {<<"error", tasks[t].url>>}
    /\ UNCHANGED <<frontier, dequeued, workerFrame, pages>>

\* save_page raises in _process_url, on either of its paths: after
\* mark_failure of a failed extraction, or after the links of a rendered page
\* were enqueued; run() catches the exception, marks the URL a failure, logs
\* it and goes round its loop
SavePageRaises(t) ==
    /\ Runnable(t, "render")
    /\ LET url == tasks[t].url
           depth == tasks[t].depth
       IN  \E F1 \in {IF url \in ExtractFailUrls
                      THEN mark_failure(frontier, url)
                      ELSE EnqueueLinks(frontier, NewLinks(url, depth, params),
                                        depth, params)} :
               Loop(t, mark_failure(F1, url), job_log \cup {<<"error", url>>})
    /\ UNCHANGED <<workerFrame, pages>>

FaultNext ==
    \/ CrawlNext
    \/ \E t \in TaskIds : SavePageRaises(t)

FaultSpec == Init /\ [][FaultNext]_vars

(***************************************************************************)
(* UnwindSpec: the job of Spec, started and maybe stopped, then deleted    *)
(* by its client, with the crawl task followed to its end after delete_job *)
(* has returned.  The deleted job is no longer in _jobs, so start_job and  *)
(* stop_job find nothing to act on; the crawl task still holds the job     *)
(* object it took from _jobs when it began.  While the job's directory is  *)
(* gone every save_page raises.                                            *)
(***************************************************************************)
\* crawl_site cannot launch the browser for a job that was deleted: the
\* handler of _run_crawler looks the job up in _jobs, the lookup raises and
\* the task ends having written nothing
BrowserLaunchFailsDeleted ==
    /\ run_pc = "launching"
    /\ delete_job_pc = "returned"
    /\ run_pc' = "done"
    /\ UNCHANGED <<frontierVars, params, componentVars, reportVars, job_status,
                   manifest_state, crawler_registered, lock, is_running,
                   is_paused, should_stop, workers, tasks, generation,
                   deadline_passed, monitor_exit, gathered, pages, job_log>>

UnwindWorkerStep(t) ==
    \/ WorkerStart(t)
    \/ WorkerWake(t)
    \/ RateLimitGranted(t)
    \/ RateLimitTimeout(t)
    \/ HeadAllowed(t)
    \/ HeadRejected(t)
    \/ manifest_state # "absent" /\ RenderFailed(t)
    \/ manifest_state # "absent" /\ RenderDone(t)
    \/ manifest_state = "absent" /\ SavePageRaises(t)
    \/ WorkerCancelled(t)

UnwindNext ==
    \/ delete_job_pc # "returned" /\ StartJob
    \/ delete_job_pc # "returned" /\ StopJobBegin
    \/ delete_job_pc # "returned" /\ BrowserLaunchFails
    \/ BrowserLaunchFailsDeleted
    \/ StartCrawl
    \/ MonitorTick
    \/ CleanupDone
    \/ RunCrawlerFinish
    \/ DeadlinePasses
    \/ StopJobFinish
    \/ \E t \in TaskIds : UnwindWorkerStep(t)
    \/ DeleteJobBegin
    \/ DeleteJobFinish

UnwindSpec == Init /\ [][UnwindNext]_vars

(***************************************************************************)
(* SeedSpec: the crawl of a job whose own seed URL is outside its scope:   *)
(* http://example.com/b crawled with exclude = ["b"].                      *)
(***************************************************************************)
SeedParams == [SmallParams EXCEPT !.exclude = <<"b">>]

SeedInit == FrontierInit /\ JobInit(SeedParams) /\ ComponentsIdle

SeedNext == CrawlNext

SeedSpec == SeedInit /\ [][SeedNext]_vars

(***************************************************************************)
(* CaptureSpec: the job of Spec with capture_assets switched on.  After    *)
(* the links of a rendered page are enqueued, _capture_assets downloads    *)
(* and saves the assets of the page one after another, and only then is    *)
(* the page record written.  A blob is named after the hash of its bytes,  *)
(* which stands here for the asset it was downloaded from; save_asset      *)
(* opens the file for writing and writes the bytes in place.               *)
(***************************************************************************)
Logo == Site(<<"logo">>)
Brochure == Site(<<"brochure">>)

\* what extract_assets_from_html finds in a page
AssetsOf(url) == IF url = PageB THEN <<Logo, Brochure>> ELSE <<Logo, External>>

\* how the capture of one asset ends: download_asset returns the bytes and
\* save_asset writes them; download_asset returns None after an error or over
\* the size limit; or save_asset raises, before it has made the file or after
\* it has written a part of it
CaptureOutcomes ==
    {"saved", "download error", "too large", "write error, no file",
     "write error, partial file"}

\* open(blob_file, 'wb') and f.write: the file of that name is replaced
WriteBlob(dir, a, complete) ==
    {b \in dir : b.blob # a} \cup {[blob |-> a, complete |-> complete]}

\* the blobs directory after the capture of asset a has ended with outcome
save_asset(dir, a, outcome) ==
    CASE outcome = "saved" -> WriteBlob(dir, a, TRUE)
      [] outcome = "write error, partial file" -> WriteBlob(dir, a, FALSE)
      [] OTHER -> dir

\* what the capture actions leave alone
captureWorkerFrame ==
    <<getters, last_call, params, bucketVars, normVars, scopeVars, assetVars,
      export_lines, manifestVars, deleteVars, fixVars, waitVars, reportVars,
      job_status, manifest_state, crawler_registered, lock, run_pc,
      is_running, is_paused, should_stop, workers, generation,
      deadline_passed, monitor_exit, gathered,
      statsVars,
      sitemapVars>>

SetCapture(t, c) ==
    [x \in DOMAIN capturing \cup {t} |-> IF x = t THEN c ELSE capturing[x]]

\* the page is rendered and its links are enqueued; _capture_assets starts
RenderedCapturing(t) ==
    /\ Runnable(t, "render")
    /\ tasks[t].url \notin ExtractFailUrls
    /\ frontier' = EnqueueLinks(frontier,
                                NewLinks(tasks[t].url, tasks[t].depth, params),
                                tasks[t].depth, params)
    /\ tasks' = [tasks EXCEPT ![t].pc = "assets"]
    /\ capturing' = SetCapture(t, [todo |-> AssetsOf(tasks[t].url),
                                   assets |-> {}, dropped |-> {}])
    /\ UNCHANGED <<dequeued, job_log, pages, blob_dir, captureWorkerFrame>>

\* one round of the loop of _capture_assets: an asset out of scope is passed
\* over, any other is downloaded and saved, or dropped on a failure
CaptureAsset(t, outcome) ==
    /\ Runnable(t, "assets")
    /\ capturing[t].todo # <<>>
    /\ LET a == Head(capturing[t].todo)
           c == [capturing[t] EXCEPT !.todo = Tail(@)]
       IN  IF ~should_follow_link(a, params, seed_components, FALSE)
           THEN /\ outcome = "saved"
                /\ capturing' = SetCapture(t, c)
                /\ blob_dir' = blob_dir
           ELSE /\ capturing' =
                      SetCapture(t, IF outcome = "saved"
                                    THEN [c EXCEPT !.assets = @ \cup {a}]
                                    ELSE [c EXCEPT !.dropped = @ \cup {a}])
                /\ blob_dir' = save_asset(blob_dir, a, outcome)
    /\ UNCHANGED <<frontier, dequeued, tasks, job_log, pages, captureWorkerFrame>>

\* _capture_assets returns: the page record is written and the URL is marked
\* a success
CaptureDone(t) ==
    /\ Runnable(t, "assets")
    /\ capturing[t].todo = <<>>
    /\ pages' = save_page(pages, tasks[t].url, tasks[t].depth,
                           ArticleOf(tasks[t].url), "200", TRUE, "None")
    /\ Loop(t, mark_success(frontier, tasks[t].url),
            job_log \cup {<<"ok", tasks[t].url>>})
    /\ UNCHANGED <<capturing, blob_dir, captureWorkerFrame>>

CaptureWorkerStep(t) ==
    \/ WorkerStart(t)
    \/ WorkerWake(t)
    \/ RateLimitGranted(t)
    \/ RateLimitTimeout(t)
    \/ HeadAllowed(t)
    \/ HeadRejected(t)
    \/ RenderFailed(t)
    \/ RenderedCapturing(t)
    \/ \E outcome \in CaptureOutcomes : CaptureAsset(t, outcome)
    \/ CaptureDone(t)
    \/ WorkerCancelled(t)

CaptureInit == Init

CaptureNext ==
    \/ StartJob
    \/ StopJobBegin
    \/ BrowserLaunchFails
    \/ StartCrawl
    \/ MonitorTick
    \/ CleanupDone
    \/ RunCrawlerFinish
    \/ DeadlinePasses
    \/ StopJobFinish
    \/ \E t \in TaskIds : CaptureWorkerStep(t)

CaptureSpec == CaptureInit /\ [][CaptureNext]_vars

(***************************************************************************)
(* StatsSpec: the job of Spec with the statistics the monitor writes into  *)
(* the manifest on every pass that does not end the crawl, and a reader    *)
(* that loads the job back.                                                *)
(***************************************************************************)
\* the status.stats save_job writes for a job; stats is what the frontier
\* counts at that time, of which save_job sees nothing
save_job(job, stats) ==
    [queued |-> 0, visited |-> job.pages_crawled, ok |-> job.pages_crawled,
     failed |-> 0, skipped |-> 0, enqueued |-> job.pages_found]

\* the counters get_job reads from the stats of a manifest
get_job(stats) ==
    [pages_crawled |-> stats.visited, pages_found |-> stats.enqueued,
     pages_remaining |-> stats.queued]

\* _update_status_with_stats, in a pass of the monitor that goes on to sleep:
\* the job is loaded, takes three counters of the frontier and is saved
UpdateStatusWithStats ==
    /\ run_pc = "monitor"
    /\ MonitorDecision(is_running, should_stop, deadline_passed, frontier,
                       workers, tasks) = "sleep"
    /\ \E job \in {[get_job(manifest_stats) EXCEPT
                        !.pages_crawled = frontier.stats.visited,
                        !.pages_found = frontier.stats.enqueued,
                        !.pages_remaining = frontier.stats.queued]} :
          /\ saved_job' = <<job>>
          /\ manifest_stats' = save_job(job, frontier.stats)
    /\ tick_stats' = <<frontier.stats>>
    /\ UNCHANGED <<loaded_job, statsFrame>>

\* CrawlStorage.get_job: the job is read back from its manifest
LoadJob ==
    /\ loaded_job' = <<get_job(manifest_stats)>>
    /\ UNCHANGED <<manifest_stats, saved_job, tick_stats, statsFrame>>

StatsInit == Init

StatsNext ==
    \/ CrawlNext
    \/ UpdateStatusWithStats
    \/ LoadJob

StatsSpec == StatsInit /\ [][StatsNext]_vars

(***************************************************************************)
(* SitemapSpec: one call of RobotsChecker.parse_sitemap on a site whose    *)
(* sitemaps are the documents of SitemapDocs.  Every call fetches its      *)
(* document and, for a sitemap index, calls parse_sitemap for its children *)
(* one after another.  The interpreter's recursion limit ends a chain of   *)
(* calls that grows too long with a RecursionError in the deepest call.    *)
(***************************************************************************)
\* sitemaps[:10]
ChildLimit == 10

\* the length of a chain of calls at which the interpreter raises
\* RecursionError
RecursionLimit == 4

\* the largest max_urls tried
MaxUrls == 3

Repeat(x, n) == [i \in 1..n |-> x]

\* what the site serves under each sitemap URL
SitemapDocs ==
    [plain |-> [kind |-> "urlset", locs |-> <<"u1", "u2">>],
     empty |-> [kind |-> "urlset", locs |-> <<>>],
     broken |-> [kind |-> "malformed", locs |-> <<>>],
     index |-> [kind |-> "index", locs |-> <<"plain", "broken", "empty">>],
     nested |-> [kind |-> "index", locs |-> <<"index">>],
     wide |-> [kind |-> "index", locs |-> Repeat("empty", ChildLimit + 1)],
     ping |-> [kind |-> "index", locs |-> <<"pong">>],
     pong |-> [kind |-> "index", locs |-> <<"ping">>]]

Take(s, n) == IF Len(s) <= n THEN s ELSE SubSeq(s, 1, n)

\* the call at the top of the stack returns v: the outermost call hands it to
\* its caller, any other to the loop of its parent, which extends urls
SitemapReturn(v) ==
    IF Len(sm_stack) = 1
    THEN /\ sm_stack' = <<>>
         /\ sm_result' = <<v>>
    ELSE /\ sm_stack' =
              [i \in 1..(Len(sm_stack) - 1) |->
                  IF i = Len(sm_stack) - 1
                  THEN [sm_stack[i] EXCEPT !.urls = @ \o v, !.child = @ + 1]
                  ELSE sm_stack[i]]
         /\ sm_result' = sm_result

NewCall(doc, max_urls) ==
    [doc |-> doc, max_urls |-> max_urls, pc |-> "get", urls |-> <<>>,
     child |-> 1]

\* parse_sitemap(sitemap_url, max_urls) is called
ParseSitemap(doc, max_urls) ==
    /\ sm_stack = <<>>
    /\ sm_result = <<>>
    /\ sm_stack' = <<NewCall(doc, max_urls)>>
    /\ UNCHANGED <<sm_result, sitemapFrame>>

\* client.get fails or the status is an error: the call returns []
SitemapGetFails ==
    /\ sm_stack # <<>>
    /\ sm_stack[Len(sm_stack)].pc = "get"
    /\ SitemapReturn(<<>>)
    /\ UNCHANGED sitemapFrame

\* the document arrives and is parsed: malformed XML gives [], a urlset its
\* first max_urls locations, and an index starts the loop over its children
SitemapGot ==
    /\ sm_stack # <<>>
    /\ sm_stack[Len(sm_stack)].pc = "get"
    /\ LET call == sm_stack[Len(sm_stack)]
           doc == SitemapDocs[call.doc]
       IN  CASE doc.kind = "malformed" -> SitemapReturn(<<>>)
             [] doc.kind = "urlset" ->
                    SitemapReturn(Take(Take(doc.locs, call.max_urls),
                                       call.max_urls))
             [] doc.kind = "index" ->
                    /\ sm_stack' = [sm_stack EXCEPT ![Len(sm_stack)].pc = "loop"]
                    /\ sm_result' = sm_result
    /\ UNCHANGED sitemapFrame

\* the loop over the children of an index: it ends after ChildLimit children
\* or once max_urls URLs are there; otherwise parse_sitemap is called for the
\* next child, which raises RecursionError in this call when the chain of
\* calls is at the limit, and the call returns []
SitemapLoop ==
    /\ sm_stack # <<>>
    /\ sm_stack[Len(sm_stack)].pc = "loop"
    /\ LET call == sm_stack[Len(sm_stack)]
           children == Take(SitemapDocs[call.doc].locs, ChildLimit)
       IN  IF call.child > Len(children)
              \/ (call.child > 1 /\ Len(call.urls) >= call.max_urls)
           THEN SitemapReturn(Take(call.urls, call.max_urls))
           ELSE IF Len(sm_stack) >= RecursionLimit
           THEN SitemapReturn(<<>>)
           ELSE /\ sm_stack' =
                     Append(sm_stack,
                            NewCall(children[call.child],
                                    call.max_urls - Len(call.urls)))
                /\ sm_result' = sm_result
    /\ UNCHANGED sitemapFrame

SitemapInit ==
    /\ CrawlIdle
    /\ WaitIdle
    /\ FixIdle
    /\ DeleteIdle
    /\ BucketIdle
    /\ NormIdle
    /\ ScopeIdle
    /\ AssetIdle
    /\ ExportIdle
    /\ ManifestIdle
    /\ CaptureIdle
    /\ StatsIdle
    /\ SitemapIdle

SitemapNext ==
    \/ \E doc \in DOMAIN SitemapDocs, max_urls \in 1..MaxUrls :
          ParseSitemap(doc, max_urls)
    \/ SitemapGetFails
    \/ SitemapGot
    \/ SitemapLoop

SitemapSpec == SitemapInit /\ [][SitemapNext]_vars

(***************************************************************************)
(* The JSONL export of the job's page records, asked for at any moment of  *)
(* the crawl.  A line is modelled by the keys of its JSON object and the   *)
(* values of the five keys the export sets itself.                         *)
(***************************************************************************)
\* glob that misses the records of failed pages
Globbed_OnlyOk(pg) == {page_data \in pg : page_data.ok}

\* pages_dir.glob('*.json'), each file read with json.load
Globbed(pg) == pg

\* export_record: url, depth, ok, status_code and timestamp of the page
\* record, then the keys of article_result spread over them
export_record(page_data) ==
    [keys |-> {"url", "depth", "ok", "status_code", "timestamp"}
                    \cup page_data.article_result.keys,
     url |-> IF "url" \in page_data.article_result.keys
             THEN page_data.article_result.url ELSE page_data.url,
     depth |-> page_data.depth, ok |-> page_data.ok,
     status_code |-> page_data.status_code, timestamp |-> page_data.written]

RECURSIVE WriteLines(_)
\* the loop of export_jsonl: one line is written for each file
WriteLines(files) ==
    IF files = {} THEN <<>>
    ELSE LET page_data == CHOOSE f \in files : TRUE
         IN  <<export_record(page_data)>> \o WriteLines(files \ {page_data})

\* export_jsonl(job_id): exports/results.jsonl is written anew
ExportJsonl ==
    /\ export_lines' = WriteLines(Globbed(pages))
    /\ UNCHANGED exportFrame

ExportNext ==
    \/ CrawlNext
    \/ ExportJsonl

ExportSpec == CrawlInit /\ [][ExportNext]_vars

\* The event loop runs every task that is ready, the awaited network calls
\* and sleeps return, and time passes; the client's calls are under no
\* obligation.
FairCrawlSpec == CrawlSpec /\ WF_vars(ProgramNext)

(***************************************************************************)
(* The statuses of the job state machine and the link graph of the site,   *)
(* as the properties below speak of them.                                  *)
(***************************************************************************)
SpecStatuses == {"pending", "running", "paused", "completed", "failed", "stopped"}

TerminalStatuses == {"completed", "failed", "stopped"}

NonTerminalStatuses == {"pending", "running", "paused"}

\* a write that takes a status from a to b follows the state machine
AllowedTransition(a, b) ==
    \/ a = b
    \/ /\ a \notin TerminalStatuses
       /\ \/ a \notin SpecStatuses
          \/ b \notin SpecStatuses
          \/ a = "pending" /\ b = "running"
          \/ a = "running" /\ b = "paused"
          \/ a = "paused" /\ b = "running"
          \/ a \in {"running", "paused"} /\ b \in TerminalStatuses

\* the in-scope pages a page links to, in canonical form
FollowedLinks(u, P) ==
    {l \in {normalize_url(Links(u)[i], P.ignore_query_params) :
                i \in 1..Len(Links(u))} :
        should_follow_link(l, P, get_url_components(P.url), FALSE)}

RECURSIVE WithinHops(_, _)
\* the pages a chain of at most k in-scope links reaches from the seed
WithinHops(k, P) ==
    IF k = 0 THEN {normalize_url(P.url, P.ignore_query_params)}
    ELSE LET prev == WithinHops(k - 1, P)
         IN  prev \cup UNION {FollowedLinks(u, P) : u \in prev}

\* the length of the shortest chain of in-scope links from the seed to u
LinkDistance(u, P) ==
    CHOOSE k \in 0..P.max_depth :
        /\ u \in WithinHops(k, P)
        /\ k = 0 \/ u \notin WithinHops(k - 1, P)

\* the job has recorded an outcome for u
HasOutcome(u) ==
    \/ \E r \in pages : r.url = u
    \/ <<"skipped", u>> \in job_log
    \/ <<"failed", u>> \in job_log

\* every worker of the crawl is blocked in dequeue on an empty frontier
WorkersIdle ==
    /\ run_pc = "monitor"
    /\ workers # {}
    /\ is_empty(frontier)
    /\ \A t \in workers : tasks[t].pc = "waiting" /\ ~tasks[t].cancel

\* the job is completed and every worker task has ended
CompletedAndUnwound ==
    /\ job_status = "completed"
    /\ AllDone(tasks, DOMAIN tasks)

(***************************************************************************)
(* C2: a job's status only moves pending -> running, running <-> paused,   *)
(* and from running or paused to completed, failed or stopped; a status    *)
(* that is completed, failed or stopped is never changed by a later write, *)
(* so a stopped job is still stopped after the orchestrator has unwound.   *)
(* Stated of the status in memory and of the state in the manifest.        *)
(***************************************************************************)
C2_StatusTransitions ==
    [][/\ AllowedTransition(job_status, job_status')
       /\ AllowedTransition(manifest_state, manifest_state')]_vars

(***************************************************************************)
(* C3: stop_job is accepted for a job in any non-terminal status (pending, *)
(* running or paused) and refused only for a job that is completed, failed *)
(* or stopped.                                                             *)
(***************************************************************************)
C3_StopAcceptedUnlessTerminal ==
    lock = "free" =>
        /\ job_status \in NonTerminalStatuses => stop_job_accepts(job_status)
        /\ job_status \in TerminalStatuses => ~stop_job_accepts(job_status)

(***************************************************************************)
(* C4: once the job has a terminal status and all its worker tasks have    *)
(* exited, visited = ok + failed + skipped and enqueued >= visited,        *)
(* whatever ended the job.                                                 *)
(***************************************************************************)
C4_StatsAfterTermination ==
    (/\ job_status \in TerminalStatuses
     /\ run_pc \in {"none", "done"}
     /\ lock = "free"
     /\ AllDone(tasks, DOMAIN tasks))
    => /\ frontier.stats.visited = frontier.stats.ok + frontier.stats.failed
                                      + frontier.stats.skipped
       /\ frontier.stats.enqueued >= frontier.stats.visited

(***************************************************************************)
(* C5: when the frontier is empty and every worker is idle in dequeue, the *)
(* job eventually becomes completed with all worker tasks ended, unless a  *)
(* stop is called (no stop has been called while the job is running).      *)
(***************************************************************************)
C5_IdleLeadsToCompleted ==
    (WorkersIdle /\ job_status = "running")
        ~> (CompletedAndUnwound \/ should_stop)

(***************************************************************************)
(* C6: once the monitor has observed the page cap or the duration cap, the *)
(* job eventually becomes completed with all worker tasks ended, unless a  *)
(* stop is called.                                                         *)
(***************************************************************************)
C6_CapLeadsToCompleted ==
    (monitor_exit \in {"time", "pages"} /\ job_status = "running")
        ~> ((job_status = "completed" /\ AllDone(tasks, DOMAIN tasks))
            \/ should_stop)

(***************************************************************************)
(* C7: after the monitor has detected the page cap or the duration cap, no *)
(* worker dequeues another URL and no further page record is written.      *)
(***************************************************************************)
C7_NothingAfterCap ==
    [][(monitor_exit \in {"time", "pages"})
            => (dequeued' = dequeued /\ pages' = pages)]_vars

(***************************************************************************)
(* C8: traversal is breadth-first for any number of workers: the depths of *)
(* successively dequeued URLs never decrease, and every URL is dequeued at *)
(* its minimal link distance from the seed.                                *)
(***************************************************************************)
C8_BreadthFirst ==
    /\ \A i, j \in 1..Len(dequeued) : i < j => dequeued[i][2] <= dequeued[j][2]
    /\ \A i \in 1..Len(dequeued) :
            dequeued[i][2] = LinkDistance(dequeued[i][1], params)

(***************************************************************************)
(* C9: with no stop, no cap reached and an extractor that always returns,  *)
(* every URL that a chain of at most max_depth in-scope links reaches from *)
(* the seed is dequeued and given an outcome: when the crawl has nothing   *)
(* left to do (frontier empty, every worker idle), none is missing.        *)
(***************************************************************************)
C9_ReachableAllProcessed ==
    (/\ WorkersIdle
     /\ ~should_stop
     /\ ~deadline_passed
     /\ monitor_exit = "none"
     /\ frontier.stats.visited < params.max_pages)
    => \A u \in WithinHops(params.max_depth, params) :
            u \in frontier.visited /\ HasOutcome(u)

(***************************************************************************)
(* C10: with respect_robots set, a URL whose path robots.txt disallows     *)
(* (Disallow: /private, URL /private/x) is marked skipped when a worker    *)
(* takes it, and no page record is written for it.                         *)
(***************************************************************************)
C10_DisallowedIsSkipped ==
    \A i \in 1..Len(dequeued) :
        (params.respect_robots /\ RobotsDisallows(dequeued[i][1]))
        => /\ <<"skipped", dequeued[i][1]>> \in job_log
           /\ frontier.stats.skipped >= 1
           /\ \A r \in pages : r.url # dequeued[i][1]

(***************************************************************************)
(* C11: every page record of the job belongs to a URL in the frontier's    *)
(* visited set, and a canonical URL has at most one page record, which is  *)
(* written once and never overwritten.                                     *)
(***************************************************************************)
C11_OnePageRecordPerVisitedUrl ==
    /\ \A r \in pages :
            /\ r.url \in frontier.visited
            /\ r.written = 1
    /\ \A r1, r2 \in pages :
            normalize_url(r1.url, params.ignore_query_params)
                = normalize_url(r2.url, params.ignore_query_params) => r1 = r2

\* PageE was offered to the frontier by both PageB and PageC, whose records
\* are written, and has its own record; a failed page has a record too
C11_Witness ==
    /\ \E r \in pages : r.url = PageB /\ r.ok
    /\ \E r \in pages : r.url = PageC /\ r.ok
    /\ \E r \in pages : r.url = PageE /\ r.ok
    /\ \E r \in pages : r.url = PageD /\ ~r.ok

(***************************************************************************)
(* C12: at every moment at most params.concurrency URLs are inside the     *)
(* semaphore-guarded section of the extractor, across start, pause, resume *)
(* and stop, also right after a resume while cancelled workers unwind.     *)
(***************************************************************************)
C12_BoundedRenderers == Cardinality(InRenderer(tasks)) <= params.concurrency

\* after a resume the renderer is full, a cancelled worker of the previous
\* generation is still inside it and a fresh worker waits for a permit
C12_Witness ==
    /\ Cardinality(InRenderer(tasks)) = params.concurrency
    /\ \E t \in InRenderer(tasks) : tasks[t].cancel /\ t[1] < generation
    /\ \E t \in DOMAIN tasks :
            t[1] = generation /\ tasks[t].pc = "acquire" /\ ~tasks[t].cancel

\* the requests admitted in the one-second window that starts at tick w,
\* the end of the window excluded
AdmittedIn(w) ==
    Cardinality({i \in 1..Len(admits) :
                    admits[i] >= w /\ admits[i] < w + TicksPerSec})

\* C13: for a domain with rate r, the requests admitted in any window of one
\* second over the admit times number at most r + 1.
C13_AtMostRatePlusOne ==
    \A w \in 0..MaxClock :
        AdmittedIn(w) * bucket.rate.den <= bucket.rate.num + bucket.rate.den

\* C14: normalize_url is idempotent: for every URL and every ignore list,
\* normalizing the normalized URL gives the normalized URL back.
C14_NormalizeIdempotent ==
    norm_out # <<>> => norm_out.twice = norm_out.once

\* http://example.com/a/c?a=1&b=2
CanonicalExample ==
    MkUrl("http", "example.com", "", <<"a", "c">>,
          << <<<<"a">>, "1">>, <<<<"b">>, "2">> >>, "")

\* C15: URLs that differ only in the case of scheme and host, an explicit
\* default port, the fragment, the order of the query parameters or ignored
\* query parameters normalize to the same string, and the case of the path
\* is kept.
C15_SpellingsNormalizeAlike ==
    norm_out # <<>> =>
        /\ norm_out.once = norm_out.base
        /\ norm_url.path = <<"A", "B">> => norm_out.once.path = <<"A", "B">>

\* HTTP://Example.COM:80/a/./b/../c?b=2&utm_source=x&a=1#frag is normalized
C15_Witness ==
    /\ norm_variant =
            MkUrl("HTTP", "Example.COM", "80", <<"a", ".", "b", "..", "c">>,
                  << <<<<"b">>, "2">>, <<<<"utm_", "source">>, "x">>,
                     <<<<"a">>, "1">> >>, "frag")
    /\ norm_ignore = DefaultIgnore
    /\ norm_out # <<>>
    /\ norm_out.once = CanonicalExample

\* C18: when the job is completed, after a pause and a resume or without,
\* the pages_crawled reported for it is the number of page records on disk.
C18_PagesCrawledCountsRecords ==
    (job_status = "completed" /\ run_pc = "done" /\ ~should_stop) =>
        pages_crawled = Cardinality(pages)

\* in_scope as the specification states it, on the scheme, host and path of
\* the URL and of the seed
StatedInScope(url, seed, P) ==
    /\ P.same_protocol_only => Lower(url.scheme) = Lower(seed.scheme)
    /\ CASE P.scope = "domain" ->
                RegisteredDomain(Lower(url.host))
                    = RegisteredDomain(Lower(seed.host))
         [] P.scope = "host" -> Lower(url.host) = Lower(seed.host)
         [] P.scope = "path_prefix" ->
                /\ Lower(url.host) = Lower(seed.host)
                /\ StartsWith(url.path, P.path_prefix)
         [] P.scope = "custom" -> TRUE
    /\ \/ P.include = <<>>
       \/ \E i \in 1..Len(P.include) : ReSearch(P.include[i], url)
    /\ ~\E i \in 1..Len(P.exclude) : ReSearch(P.exclude[i], url)

\* C16: in_scope is true exactly when the scheme rule, the scope rule (same
\* registered domain, same host, same host and path prefix, or none), the
\* include rule and the exclude rule all hold.
C16_InScopeAsStated ==
    scope_out # <<>> =>
        scope_out[1] = StatedInScope(scope_case.url, scope_case.seed,
                                     scope_case.params)

\* C17: no blob is larger than max_asset_size_mb megabytes: a download whose
\* Content-Length or whose running total exceeds the limit is rejected, and
\* a rejected download writes no blob.
C17_AssetsWithinLimit ==
    [][/\ \A i \in 1..Len(blobs') : blobs'[i].size <= blobs'[i].max_size_bytes
       /\ asset'.pc = "stream" =>
            /\ asset'.content <= asset'.max_size_bytes
            /\ asset'.content_length <= asset'.max_size_bytes
       /\ (asset.pc = "stream" /\ asset'.returned = "None") => blobs' = blobs
      ]_vars

\* a blob of exactly the limit was written, and then a download whose body
\* outgrew the limit was rejected
C17_Witness ==
    /\ Len(blobs) = 1
    /\ blobs[1].size = blobs[1].max_size_bytes
    /\ asset.calls = 2
    /\ asset.pc = "idle" /\ asset.returned = "None"
    /\ asset.content > asset.max_size_bytes

\* C19: export_jsonl writes exactly one line for each page record of the
\* job, the records with ok = false included, and every line carries url,
\* depth, ok, status_code and timestamp.
C19_OneLinePerPageRecord ==
    [][export_lines' # export_lines =>
        /\ Len(export_lines') = Cardinality(pages)
        /\ \A r \in pages :
            \E i \in 1..Len(export_lines') :
                /\ export_lines'[i].url = r.url
                /\ export_lines'[i].depth = r.depth
                /\ export_lines'[i].ok = r.ok
        /\ \A i \in 1..Len(export_lines') :
            {"url", "depth", "ok", "status_code", "timestamp"}
                \subseteq export_lines'[i].keys
      ]_vars

\* a job with three OK page records and one failed one is exported in four
\* lines
C19_Witness ==
    /\ Cardinality({r \in pages : r.ok}) = 3
    /\ Cardinality({r \in pages : ~r.ok}) = 1
    /\ Len(export_lines) = 4
    /\ \E i \in 1..4 : ~export_lines[i].ok

\* C20: a manifest rewrite is atomic: whenever no write call is running,
\* also after the process stopped in the middle of one, manifest.json holds
\* a complete manifest, the previous or the new one, and no reader is
\* handed a failed load.
C20_ManifestRewriteAtomic ==
    manifest_file # <<>> =>
        /\ manifest_writer = <<>> => Complete(manifest_file)
        /\ manifest_loaded # "None"

\* C21: delete_job called on a running job terminates and leaves the lock
\* free: the call never comes to wait, with the job manager's lock in its
\* hand, for that same lock, which nobody would release.
C21_DeleteRunningJobReturns ==
    ~(lock = "delete_job" /\ delete_job_pc = "stop_job awaits lock")

\* C22: fix_stuck_jobs reconciles every job whose persisted status is
\* running and that has no live crawler, in the manager's table or not: to
\* completed when it has a page record, otherwise to failed with the
\* 'interrupted' error; a job with a live crawler is left as it was.
C22_StuckJobsReconciled ==
    fix_before # <<>> =>
        \A j \in JobIds :
            IF fix_before[j].state = "running" /\ ~fix_before[j].in_crawlers
            THEN IF fix_before[j].pages > 0
                 THEN fix_jobs[j].state = "completed"
                 ELSE /\ fix_jobs[j].state = "failed"
                      /\ fix_jobs[j].error = "interrupted"
            ELSE fix_before[j].in_crawlers => fix_jobs[j] = fix_before[j]

\* C23: every status a job holds, in the manager's memory or in its
\* manifest, is one of pending, running, paused, completed, failed, stopped.
C23_StatusVocabulary ==
    /\ job_status \in SpecStatuses
    /\ manifest_state \in SpecStatuses

\* C24: in every state of a frontier that is never cleared the counters
\* agree with the structures: queued is the length of the queue and the
\* size of the in-frontier set, visited is the size of the visited set, the
\* two sets are disjoint, and enqueued = visited + queued.
C24_CountersAgree ==
    /\ frontier.stats.queued = Len(frontier.queue)
    /\ frontier.stats.queued = Cardinality(frontier.in_frontier)
    /\ {frontier.queue[i][1] : i \in 1..Len(frontier.queue)}
            = frontier.in_frontier
    /\ frontier.stats.visited = Cardinality(frontier.visited)
    /\ frontier.visited \cap frontier.in_frontier = {}
    /\ frontier.stats.enqueued
            = frontier.stats.visited + frontier.stats.queued

\* a URL waits in the queue, two were dequeued, and an enqueue of a URL
\* already seen has just been refused
C24_Witness ==
    /\ Len(frontier.queue) >= 1
    /\ frontier.stats.visited >= 2
    /\ last_call # <<>>
    /\ last_call[2] = FALSE

\* the <<url, depth>> entries the frontier holds or has handed out
FrontierEntries(F, dq) ==
    {F.queue[i] : i \in 1..Len(F.queue)} \cup {dq[i] : i \in 1..Len(dq)}

\* C25: an entry enqueued by a worker that processes a parent dequeued at
\* depth d has depth d + 1, and links are enqueued only when d < max_depth;
\* the seed has depth 0; so no entry of the frontier is ever deeper than
\* max_depth.
C25_DepthMonotone ==
    [][/\ \A e \in FrontierEntries(frontier', dequeued')
                    \ FrontierEntries(frontier, dequeued) :
            \/ /\ run_pc = "launching"
               /\ e = <<normalize_url(params.url, params.ignore_query_params), 0>>
            \/ \E t \in DOMAIN tasks :
                /\ tasks[t].pc = "render"
                /\ tasks'[t] # tasks[t]
                /\ tasks[t].depth < params.max_depth
                /\ e[2] = tasks[t].depth + 1
       /\ \A e \in FrontierEntries(frontier', dequeued') :
            e[2] <= params.max_depth
      ]_vars

\* with max_depth 1, a page at depth 1 that has links was processed and
\* recorded, and every entry of the frontier has been handed out
C25_Witness ==
    /\ params.max_depth = 1
    /\ \E r \in pages : r.ok /\ r.depth = 1 /\ Links(r.url) # <<>>
    /\ \E i \in 1..Len(dequeued) : dequeued[i][2] = 1
    /\ frontier.queue = <<>>

\* the URL has no page record and is not in the frontier to be taken again
NoRecordNoRetry(u, F, pg) ==
    /\ \A r \in pg : r.url # u
    /\ u \notin F.in_frontier
    /\ \A i \in 1..Len(F.queue) : F.queue[i][1] # u

\* C26: a URL whose rate-limit wait times out is counted as failed, a URL
\* whose content type is not allowed is counted as skipped; in both cases
\* no page record is written for the URL, then or later, and the URL is not
\* enqueued again.
C26_RejectedCountedNotRecorded ==
    [][/\ \A e \in job_log' \ job_log :
            /\ e[1] = "failed" =>
                /\ frontier'.stats.failed = frontier.stats.failed + 1
                /\ frontier'.stats.skipped = frontier.stats.skipped
                /\ pages' = pages
            /\ e[1] = "skipped" =>
                /\ frontier'.stats.skipped = frontier.stats.skipped + 1
                /\ frontier'.stats.failed = frontier.stats.failed
                /\ pages' = pages
       /\ \A e \in job_log' :
            e[1] \in {"failed", "skipped"}
                => NoRecordNoRetry(e[2], frontier', pages')
      ]_vars

\* the wait for PageD timed out: it is the one failure, it has no page
\* record, and the crawl went on to record pages after it
C26_Witness ==
    /\ <<"failed", PageD>> \in job_log
    /\ frontier.stats.failed = 1
    /\ frontier.stats.skipped = 0
    /\ NoRecordNoRetry(PageD, frontier, pages)
    /\ \E r \in pages : r.url = PageE

\* worker task t ends its work on the URL it holds, without being cancelled
FinishesUrl(t) ==
    /\ t \in DOMAIN tasks
    /\ tasks[t].url # NoUrl
    /\ ~tasks[t].cancel
    /\ ~tasks'[t].cancel
    /\ tasks'[t] # tasks[t]
    /\ tasks'[t].pc \notin {"head", "acquire", "render"}
          \/ tasks'[t].url # tasks[t].url

C28_WorkerSurvivesException ==
    [][/\ \A t \in DOMAIN tasks :
            (tasks[t].pc = "render" /\ FinishesUrl(t)
                /\ <<"error", tasks[t].url>> \in job_log' \ job_log) =>
                /\ frontier'.stats.failed > frontier.stats.failed
                /\ tasks'[t].pc \in {"ratelimit", "waiting", "done"}
                /\ tasks'[t].pc = "done" => tasks[t].should_stop
                /\ tasks'[t].pc # "done" => tasks'[t].is_running
                /\ job_status' = job_status
                /\ manifest_state' = manifest_state
                /\ run_pc' = run_pc
       /\ (job_status' = "failed" /\ job_status # "failed") => tasks' = tasks
      ]_vars

\* the write of PageB's record raised: PageB is a failure without a page
\* record, and the worker went on and recorded a page that PageB links to
C28_Witness ==
    /\ <<"error", PageB>> \in job_log
    /\ \A r \in pages : r.url # PageB
    /\ \E r \in pages : r.url = PageE /\ r.ok
    /\ frontier.stats.failed >= 1
    /\ job_status = "running"

\* the worker steps that hold a dequeued URL
InProgress == {"ratelimit", "head", "acquire", "render"}

\* the tasks that were cancelled with a URL in progress
Abandoning(T) ==
    {t \in DOMAIN T : T[t].cancel /\ T[t].url # NoUrl /\ T[t].pc \in InProgress}

\* C29: the step in which a cancelled worker (stop or pause) gives up the URL
\* it is processing writes no page record and no log entry and leaves every
\* counter of the frontier as it was, and a URL given up this way has no page
\* record afterwards either.
C29_CancelledUrlLost ==
    [][/\ \A t \in Abandoning(tasks) :
            tasks'[t].pc = "done" =>
                /\ pages' = pages
                /\ job_log' = job_log
                /\ frontier'.stats = frontier.stats
       /\ \A t \in DOMAIN tasks' :
            (tasks'[t].cancel /\ tasks'[t].url # NoUrl) =>
                \A r \in pages' : r.url # tasks'[t].url]_vars

\* a worker cancelled by pause has given up a URL, the crawl was resumed and
\* a later worker has stored a page
C29_Witness ==
    /\ \E t \in DOMAIN tasks :
          tasks[t].cancel /\ tasks[t].url # NoUrl /\ tasks[t].pc = "done"
    /\ generation > 1
    /\ pages # {}

\* C30: pause leaves the frontier's queue and visited set as they were; while
\* the job is paused no URL is dequeued; and a paused job that is neither
\* resumed nor stopped and has reached neither its page cap nor its deadline
\* stays paused: its crawl does not end and its persisted state stays
\* "paused".
C30_PausedUntilResumed ==
    [][/\ (~is_paused /\ is_paused') =>
            /\ frontier'.queue = frontier.queue
            /\ frontier'.visited = frontier.visited
       /\ (is_paused /\ is_paused') => dequeued' = dequeued
       /\ (/\ is_paused /\ is_paused'
           /\ manifest_state = "paused"
           /\ ~should_stop'
           /\ ~deadline_passed'
           /\ frontier'.stats.visited < params.max_pages) =>
            /\ manifest_state' = "paused"
            /\ run_pc' = run_pc]_vars

\* how many requests were admitted at the ticks a..b
AdmittedBetween(a, b) ==
    Cardinality({i \in 1..Len(admits) : admits[i] >= a /\ admits[i] <= b})

\* rate 2.0, and five requests that all arrived at t = 0
FiveTogether ==
    /\ bucket.rate = [num |-> 2, den |-> 1]
    /\ bucket.capacity = 2
    /\ Len(waiters) = 5
    /\ \A i \in 1..5 : waiters[i].start_time = 0

\* when the k-th of five requests at rate 2 is admitted: the first two at
\* once, the others at the first tick at or after (k - 2) * 500 ms
AdmitSlot(k) == IF k <= 2 THEN 0 ELSE ((k - 2) * TicksPerSec + 1) \div 2

\* C31: the token count of a domain's bucket stays within [0, capacity]; the
\* requests admitted in any interval of length T number at most capacity +
\* rate * T; and at rate 2 with capacity 2, five requests made together at
\* t = 0 are admitted two at once and then one every 500 ms, none later than
\* its turn.
C31_BucketBound ==
    bucket # NoBucket =>
        /\ bucket.tokens >= 0
        /\ bucket.tokens <= bucket.capacity * OneToken(bucket.rate)
        /\ \A a \in 0..clock : \A b \in a..clock :
              AdmittedBetween(a, b) * OneToken(bucket.rate) <=
                 bucket.capacity * OneToken(bucket.rate)
                    + bucket.rate.num * (b - a)
        /\ FiveTogether =>
              /\ \A k \in 1..Len(admits) : admits[k] = AdmitSlot(k)
              /\ \A k \in 1..5 : clock > AdmitSlot(k) => Len(admits) >= k
              /\ \A i \in 1..5 :
                    waiters[i].state = "granted" =>
                        \E k \in 1..Len(admits) : admits[k] = waiters[i].at

\* the five requests made together have all been admitted
C31_Witness ==
    /\ FiveTogether
    /\ Len(admits) = 5
    /\ \A i \in 1..5 : waiters[i].state = "granted"
    /\ clock = AdmitSlot(5)

\* C32: every URL a worker has dequeued, the seed included, satisfies the
\* scope predicate of the job (protocol rule, scope rule, include and exclude
\* patterns), which is the same at enqueue time and later.
C32_DequeuedInScope ==
    \A i \in 1..Len(dequeued) :
        in_scope(dequeued[i][1], params, seed_components)

\* the URLs the frontier has taken in so far
Seen(F) == F.visited \cup F.in_frontier

\* C33: with follow_nofollow false, the step in which a worker has rendered
\* a page and enqueues its links takes no link into the frontier whose
\* anchor on that page carries rel=nofollow.
C33_NofollowNotEnqueued ==
    [][~params.follow_nofollow =>
        \A t \in DOMAIN tasks :
            (tasks[t].pc = "render" /\ tasks'[t].pc # "render") =>
                \A l \in NofollowAnchors(tasks[t].url) :
                    \A n \in {normalize_url(l, params.ignore_query_params)} :
                        n \in Seen(frontier') => n \in Seen(frontier)]_vars

\* C34: a failure while an asset of a page is captured (download error,
\* size limit, blob write error) writes no blob for the dropped asset and
\* changes neither the page records nor the counters; and the page whose
\* asset was dropped still gets its page record with ok = true and is
\* counted ok, and neither failed nor skipped.
C34_AssetFailureHarmless ==
    [][\A t \in DOMAIN capturing :
        /\ (/\ tasks[t].pc = "assets"
            /\ capturing'[t].dropped # capturing[t].dropped) =>
                /\ blob_dir' = blob_dir
                /\ pages' = pages
                /\ frontier'.stats = frontier.stats
        /\ (/\ tasks[t].pc = "assets"
            /\ tasks'[t].pc # "assets"
            /\ ~tasks[t].cancel
            /\ capturing[t].dropped # {}) =>
                /\ \E r \in pages' : r.url = tasks[t].url /\ r.ok
                /\ frontier'.stats.ok = frontier.stats.ok + 1
                /\ frontier'.stats.failed = frontier.stats.failed
                /\ frontier'.stats.skipped = frontier.stats.skipped]_vars

\* C35: the statistics a pass of the monitor writes into the manifest are
\* the six counters the frontier holds at that pass, and a job loaded back
\* from the manifest after the monitor has saved it reports the pages_crawled,
\* pages_found and pages_remaining that were saved.
C35_ManifestMirrorsFrontier ==
    [][/\ tick_stats' # tick_stats => manifest_stats' = frontier.stats
       /\ (loaded_job' # loaded_job /\ saved_job # <<>>) =>
              loaded_job' = saved_job]_vars

\* C36: parse_sitemap follows sitemap-index references to a depth of at most
\* 1, so that no more than the outermost call and one call for a child are
\* under way at a time, and a call reads at most 10 children of an index.
C36_SitemapDepthAtMostOne ==
    /\ Len(sm_stack) <= 2
    /\ \A i \in 1..Len(sm_stack) : sm_stack[i].child <= ChildLimit + 1

\* worker task t takes a step on the URL u it holds, without being cancelled
StepsOn(t, u) ==
    /\ tasks[t].url = u
    /\ u # NoUrl
    /\ ~tasks[t].cancel
    /\ ~tasks'[t].cancel
    /\ tasks'[t] # tasks[t]

\* worker task t still holds the URL u and stands at one of the steps pcs
GoesOn(t, u, pcs) == tasks'[t].url = u /\ tasks'[t].pc \in pcs

\* no page record is written and no counter of outcomes changes
NothingRecorded ==
    /\ pages' = pages
    /\ frontier'.stats.ok = frontier.stats.ok
    /\ frontier'.stats.failed = frontier.stats.failed
    /\ frontier'.stats.skipped = frontier.stats.skipped

\* C37: a worker takes the steps on a dequeued URL in the order robots check,
\* rate-limit wait, HEAD check, render, and the enqueueing of links, the page
\* record and mark_success come with the end of the render; a URL rejected at
\* a step gets no later step: a URL that robots.txt denies gets no rate-limit
\* token, a rate-limit timeout ends the URL as failed without HEAD or page
\* record, and a rejected content type ends it as skipped without a render.
C37_StepsInOrder ==
    [][\A t \in DOMAIN tasks : \A u \in {tasks[t].url} :
        StepsOn(t, u) =>
            /\ (params.respect_robots /\ RobotsDisallows(u)) =>
                    ~(tasks[t].pc = "ratelimit" /\ GoesOn(t, u, {"head"}))
            /\ tasks[t].pc = "ratelimit" =>
                    \/ GoesOn(t, u, {"head"}) /\ NothingRecorded
                    \/ /\ FinishesUrl(t)
                       /\ pages' = pages
                       /\ frontier'.stats.failed = frontier.stats.failed + 1
            /\ tasks[t].pc = "head" =>
                    \/ GoesOn(t, u, {"acquire", "render"}) /\ NothingRecorded
                    \/ /\ FinishesUrl(t)
                       /\ pages' = pages
                       /\ frontier'.stats.skipped = frontier.stats.skipped + 1
            /\ tasks[t].pc = "acquire" =>
                    GoesOn(t, u, {"render"}) /\ NothingRecorded
            /\ tasks[t].pc = "render" =>
                    /\ FinishesUrl(t)
                    /\ \E r \in pages' : r.url = u
                    /\ frontier'.stats.ok + frontier'.stats.failed
                         = frontier.stats.ok + frontier.stats.failed + 1]_vars

\* the URLs the frontier has counted an outcome for
Outcomes(F) == F.stats.ok + F.stats.failed + F.stats.skipped

\* C38: when a worker ends its work on a dequeued URL without being
\* cancelled, exactly one of the counters ok, failed and skipped has grown,
\* and by exactly one, also when the write of the page record has raised.
C38_OneOutcomePerUrl ==
    [][\A t \in DOMAIN tasks :
        (tasks[t].pc \in InProgress /\ FinishesUrl(t)) =>
            /\ Outcomes(frontier') = Outcomes(frontier) + 1
            /\ frontier'.stats.ok >= frontier.stats.ok
            /\ frontier'.stats.failed >= frontier.stats.failed
            /\ frontier'.stats.skipped >= frontier.stats.skipped]_vars

C39_DeletedWhileUnwinding ==
    delete_job_pc = "returned" /\ run_pc \notin {"none", "done"}

\* C40: reading a job never changes whether it can be started, so that the
\* first start_job of a created job finds it pending whatever get_job calls
\* came before; and start_job succeeds only for a job that has no crawl task
\* yet, hence at most once per job
C40_ReadKeepsStartable ==
    [][/\ (GetJob /\ job_status = "pending") => job_status' = "pending"
       /\ StartJob => run_pc = "none"]_vars
=============================================================================
